---- MODULE Spec2Model ----
(***************************************************************************)
(* Annotation validation of pdfcpu (pkg/pdfcpu/validateAnnotations.go).    *)
(*                                                                         *)
(* The source file holds two revisions of the validator: the current one   *)
(* (package pdfcpu, lines 1-1615) and an earlier one (package validate,    *)
(* lines 1617-3529).  The variable rev selects the revision; every         *)
(* operator below follows the code of the revision rev names.              *)
(*                                                                         *)
(* The object graph is a tree of values.  A value is a record              *)
(*   t : the PDF type tag                                                  *)
(*   s : the payload of a name or a string                                 *)
(*   n : the payload of a number, or the object number of a reference      *)
(*   d : the entries of a dictionary or stream (key -> value)              *)
(*   e : the elements of an array                                          *)
(* Reals are kept in tenths (PDFFloat(5) is 0.5).                          *)
(***************************************************************************)
EXTENDS Integers, Sequences, FiniteSets, TLC

VARIABLES
    rev,        \* source revision: 1 = package pdfcpu, 2 = package validate
    xRefTable,  \* validation context: Version, ValidationMode, Table
    annot,      \* the annotation dictionary handed to validateAnnotationDict
    annotRes,   \* what validateAnnotationDict returned for annot
    root,       \* the root Pages dictionary handed to validatePagesAnnotations
    stack,      \* call stack of the page tree walker
    result,     \* outcome of validatePagesAnnotations
    visited     \* kids and Annots elements examined so far, in order

vars == <<rev, xRefTable, annot, annotRes, root, stack, result, visited>>

-----------------------------------------------------------------------------
(* PDF versions and validation modes                                       *)

V10 == 10
V11 == 11
V12 == 12
V13 == 13
V14 == 14
V15 == 15
V16 == 16
V17 == 17

Versions == V10..V17

ValidationStrict == "strict"
ValidationRelaxed == "relaxed"

Modes == {ValidationStrict, ValidationRelaxed}

REQUIRED == TRUE
OPTIONAL == FALSE

-----------------------------------------------------------------------------
(* Object graph nodes                                                      *)

NoEntries == <<>>

Val(t, s, n, d, e) == [t |-> t, s |-> s, n |-> n, d |-> d, e |-> e]

Nil == Val("nil", "", 0, NoEntries, <<>>)
PDFName(s) == Val("name", s, 0, NoEntries, <<>>)
PDFStringLiteral(s) == Val("string", s, 0, NoEntries, <<>>)
PDFInteger(n) == Val("int", "", n, NoEntries, <<>>)
PDFFloat(n) == Val("real", "", n, NoEntries, <<>>)
PDFBoolean == Val("bool", "", 0, NoEntries, <<>>)
PDFIndirectRef(n) == Val("ref", "", n, NoEntries, <<>>)
PDFDict(d) == Val("dict", "", 0, d, <<>>)
PDFStreamDict(d) == Val("stream", "", 0, d, <<>>)
PDFArray(e) == Val("array", "", 0, NoEntries, e)

\* a string that is a well-formed date
DateString == Val("string", "D:2018", 0, NoEntries, <<>>)

\* a dictionary / an object the delegated (out of scope) validators reject
BadDict(d) == Val("dict", "bad", 0, d, <<>>)
BadArray(e) == Val("array", "bad", 0, NoEntries, e)

NumArr(n) == PDFArray([i \in 1..n |-> PDFInteger(0)])
NameArr(n) == PDFArray([i \in 1..n |-> PDFName("None")])

\* d with key k set to v / with key k removed
With(d, k, v) == [x \in (DOMAIN d) \cup {k} |-> IF x = k THEN v ELSE d[x]]
Without(d, k) == [x \in (DOMAIN d) \ {k} |-> d[x]]

Has(dict, k) == k \in DOMAIN dict.d

-----------------------------------------------------------------------------
(* Resolver (xRefTable.Dereference, xRefTable.DereferenceDict)             *)
(* Table is the sequence of indirect objects, object number = index.  A    *)
(* reference to a number outside the table is dangling.                    *)

Dereference(xrt, v) ==
    IF v.t # "ref" THEN [err |-> FALSE, o |-> v]
    ELSE IF v.n \notin DOMAIN xrt.Table THEN [err |-> TRUE, o |-> Nil]
    ELSE [err |-> FALSE, o |-> xrt.Table[v.n]]

DereferenceDict(xrt, v) ==
    LET r == Dereference(xrt, v)
    IN  IF r.err THEN r
        ELSE IF r.o.t \notin {"nil", "dict"} THEN [err |-> TRUE, o |-> Nil]
        ELSE r

\* PDFDict.Type(), PDFDict.IntEntry(key), PDFDict.PDFArrayEntry(key):
\* the entry when it is present with the expected type, else nil
DictType(dict) ==
    IF Has(dict, "Type") /\ dict.d["Type"].t = "name" THEN dict.d["Type"] ELSE Nil

IntEntry(dict, key) ==
    IF Has(dict, key) /\ dict.d[key].t = "int" THEN dict.d[key] ELSE Nil

PDFArrayEntry(dict, key) ==
    IF Has(dict, key) /\ dict.d[key].t = "array" THEN dict.d[key] ELSE Nil

-----------------------------------------------------------------------------
(* Outcome of one check: the error kind ("" = no error), the key and the   *)
(* dictionary name it is reported for, and whether the caller discards it. *)

Chk(e, k, dn) == [e |-> e, k |-> k, dn |-> dn, ign |-> FALSE]

Failed(c) == c.e # "" /\ ~c.ign

\* "if err != nil { return err }" after every check: the checks of plan
\* that are executed, i.e. up to and including the first one that fails
FirstFailure(plan) ==
    IF \E i \in 1..Len(plan) : Failed(plan[i])
    THEN CHOOSE i \in 1..Len(plan) :
            /\ Failed(plan[i])
            /\ \A j \in 1..(i-1) : ~Failed(plan[j])
    ELSE 0

\* (the plan is evaluated once, then cut)
Run(plan) ==
    CHOOSE tr \in {IF FirstFailure(p) = 0 THEN p ELSE SubSeq(p, 1, FirstFailure(p)) :
                    p \in {plan}} : TRUE

NoErr == Chk("", "", "")

\* the error an executed trace returns
ErrOf(tr) ==
    CHOOSE c \in {IF p # <<>> /\ Failed(p[Len(p)]) THEN p[Len(p)] ELSE NoErr : p \in {tr}} : TRUE

IsOK(tr) == ErrOf(tr).e = ""

\* "if err != nil { return err }" between two calls: rest is reached only
\* when tr returned no error
AndThen(tr, rest) ==
    CHOOSE r \in {IF IsOK(p) THEN p \o rest ELSE p : p \in {tr}} : TRUE

-----------------------------------------------------------------------------
(* Field accessor layer (validate<Kind>Entry)                              *)

IsNumber(o) == o.t \in {"int", "real"}

\* the value of a number in tenths
Tenths(o) == IF o.t = "int" THEN 10 * o.n ELSE o.n

ElemsAre(xrt, o, types) ==
    \A i \in 1..Len(o.e) :
        LET r == Dereference(xrt, o.e[i])
        IN ~r.err /\ r.o.t \in types

HasKind(xrt, o, kind) ==
    CASE kind = "Name" -> o.t = "name"
      [] kind = "String" -> o.t = "string"
      [] kind = "Date" -> o.t = "string" /\ o.s = "D:2018"
      [] kind = "Integer" -> o.t = "int"
      [] kind = "Number" -> IsNumber(o)
      [] kind = "Boolean" -> o.t = "bool"
      [] kind = "Dict" -> o.t = "dict"
      [] kind = "StreamDict" -> o.t = "stream"
      [] kind = "Array" -> o.t = "array"
      [] kind = "NumberArray" -> o.t = "array" /\ ElemsAre(xrt, o, {"int", "real"})
      [] kind = "IntegerArray" -> o.t = "array" /\ ElemsAre(xrt, o, {"int"})
      [] kind = "NameArray" -> o.t = "array" /\ ElemsAre(xrt, o, {"name"})
      [] kind = "ArrayArray" -> o.t = "array" /\ ElemsAre(xrt, o, {"array"})
      [] kind = "Rectangle" ->
            o.t = "array" /\ Len(o.e) = 4 /\ ElemsAre(xrt, o, {"int", "real"})
      [] kind = "StringOrStream" -> o.t \in {"string", "stream"}
      [] kind = "BooleanOrStream" -> o.t \in {"bool", "stream"}
      [] kind = "StreamDictOrDict" -> o.t \in {"stream", "dict"}
      [] kind = "Any" -> TRUE

\* validate<Kind>Entry(xRefTable, dict, dictName, entryName, required,
\* sinceVersion, validate): missing-required, then version, then type, then
\* the value predicate; valid is the predicate applied to the entry's value
validateTypedEntry(xrt, dict, dictName, entryName, required, sinceVersion, kind, valid) ==
    IF ~Has(dict, entryName)
    THEN Chk(IF required THEN "Missing" ELSE "", entryName, dictName)
    ELSE LET r == Dereference(xrt, dict.d[entryName])
         IN  IF r.err THEN Chk("Deref", entryName, dictName)
             ELSE IF r.o.t = "nil"
             THEN Chk(IF required THEN "Missing" ELSE "", entryName, dictName)
             ELSE IF xrt.Version < sinceVersion THEN Chk("Version", entryName, dictName)
             ELSE IF ~HasKind(xrt, r.o, kind) THEN Chk("Type", entryName, dictName)
             ELSE IF ~valid THEN Chk("Constraint", entryName, dictName)
             ELSE Chk("", entryName, dictName)

\* validateIndRefEntry: the entry itself must be an indirect reference
validateIndRefEntry(xrt, dict, dictName, entryName, required, sinceVersion) ==
    IF ~Has(dict, entryName) \/ dict.d[entryName].t = "nil"
    THEN Chk(IF required THEN "Missing" ELSE "", entryName, dictName)
    ELSE IF xrt.Version < sinceVersion THEN Chk("Version", entryName, dictName)
    ELSE IF dict.d[entryName].t # "ref" THEN Chk("Type", entryName, dictName)
    ELSE Chk("", entryName, dictName)

\* the value an entry check hands back: the dereferenced entry, nil when the
\* entry is absent or resolves to null
Entry(xrt, dict, entryName) ==
    IF ~Has(dict, entryName) THEN Nil
    ELSE Dereference(xrt, dict.d[entryName]).o

\* xRefTable.ValidateVersion(element, sinceVersion)
ValidateVersion(xrt, element, sinceVersion) ==
    Chk(IF xrt.Version < sinceVersion THEN "Version" ELSE "", element, element)

\* A delegated validator (action, destination, file specification, sound,
\* measure, appearance, optional content, movie activation, additional
\* actions, URI action): a black box that rejects the objects marked bad
Delegated(o, what, dictName) ==
    Chk(IF o.s = "bad" THEN "Delegate" ELSE "", what, dictName)

memberOf(s, list) == s \in list

-----------------------------------------------------------------------------
(* Shared sub-structure validators.  Every validator returns the trace of  *)
(* the checks it executed, in order; the last one is the error it returns  *)
(* when it failed.                                                         *)

\* rev 2: "if xRefTable.Version() < sinceVersion" opening a variant validator
VersionCheck(xrt, dictName, sinceVersion) ==
    IF rev = 2 THEN <<ValidateVersion(xrt, dictName, sinceVersion)>> ELSE <<>>

validateBorderEffectDictEntry(xrt, dict, dictName, entryName, required, sinceVersion) ==
    LET c == validateTypedEntry(xrt, dict, dictName, entryName, required, sinceVersion, "Dict", TRUE)
        d == Entry(xrt, dict, entryName)
    IN  IF Failed(c) \/ d.t = "nil" THEN <<c>>
        ELSE Run(<<c,
            validateTypedEntry(xrt, d, "borderEffectDict", "S", OPTIONAL, V10, "Name",
                               Entry(xrt, d, "S").s = "S" \/ Entry(xrt, d, "S").s = "C"),
            validateTypedEntry(xrt, d, "borderEffectDict", "I", OPTIONAL, V10, "Number",
                               0 <= Tenths(Entry(xrt, d, "I")) /\ Tenths(Entry(xrt, d, "I")) <= 20)>>)

validateBorderStyleDict(xrt, dict, dictName, entryName, required, sinceVersion) ==
    LET c == validateTypedEntry(xrt, dict, dictName, entryName, required, sinceVersion, "Dict", TRUE)
        d == Entry(xrt, dict, entryName)
    IN  IF Failed(c) \/ d.t = "nil" THEN <<c>>
        ELSE Run(<<c,
            validateTypedEntry(xrt, d, "borderStyleDict", "Type", OPTIONAL, V10, "Name",
                               Entry(xrt, d, "Type").s = "Border"),
            validateTypedEntry(xrt, d, "borderStyleDict", "W", OPTIONAL, V10, "Number", TRUE),
            validateTypedEntry(xrt, d, "borderStyleDict", "S", OPTIONAL, V10, "Name",
                               memberOf(Entry(xrt, d, "S").s, {"S", "D", "B", "I", "U", "A"})),
            validateTypedEntry(xrt, d, "borderStyleDict", "D", OPTIONAL, V10, "NumberArray",
                               Len(Entry(xrt, d, "D").e) <= 2)>>)

validateIconFitDictEntry(xrt, dict, dictName, entryName, required, sinceVersion) ==
    LET c == validateTypedEntry(xrt, dict, dictName, entryName, required, sinceVersion, "Dict", TRUE)
        d == Entry(xrt, dict, entryName)
    IN  IF Failed(c) \/ d.t = "nil" THEN <<c>>
        ELSE Run(<<c,
            validateTypedEntry(xrt, d, "iconFitDict", "SW", OPTIONAL, V10, "Name",
                               memberOf(Entry(xrt, d, "SW").s, {"A", "B", "S", "N"})),
            validateTypedEntry(xrt, d, "iconFitDict", "S", OPTIONAL, V10, "Name",
                               Entry(xrt, d, "S").s = "A" \/ Entry(xrt, d, "S").s = "P"),
            validateTypedEntry(xrt, d, "iconFitDict", "A", OPTIONAL, V10, "NumberArray", TRUE),
            validateTypedEntry(xrt, d, "iconFitDict", "FB", OPTIONAL, V10, "Boolean", TRUE)>>)

validateAppearanceCharacteristicsDictEntry(xrt, dict, dictName, entryName, required, sinceVersion) ==
    LET c == validateTypedEntry(xrt, dict, dictName, entryName, required, sinceVersion, "Dict", TRUE)
        d == Entry(xrt, dict, entryName)
    IN  IF Failed(c) \/ d.t = "nil" THEN <<c>>
        ELSE Run(<<c,
            validateTypedEntry(xrt, d, "appCharDict", "R", OPTIONAL, V10, "Integer", TRUE),
            validateTypedEntry(xrt, d, "appCharDict", "BC", OPTIONAL, V10, "NumberArray", TRUE),
            validateTypedEntry(xrt, d, "appCharDict", "BG", OPTIONAL, V10, "NumberArray", TRUE),
            validateTypedEntry(xrt, d, "appCharDict", "CA", OPTIONAL, V10, "String", TRUE),
            validateTypedEntry(xrt, d, "appCharDict", "RC", OPTIONAL, V10, "String", TRUE),
            validateTypedEntry(xrt, d, "appCharDict", "AC", OPTIONAL, V10, "String", TRUE),
            validateTypedEntry(xrt, d, "appCharDict", "I", OPTIONAL, V10, "StreamDict", TRUE),
            validateTypedEntry(xrt, d, "appCharDict", "RI", OPTIONAL, V10, "StreamDict", TRUE),
            validateTypedEntry(xrt, d, "appCharDict", "IX", OPTIONAL, V10, "StreamDict", TRUE)>>
            \o validateIconFitDictEntry(xrt, d, "appCharDict", "IF", OPTIONAL, V10)
            \o <<validateTypedEntry(xrt, d, "appCharDict", "TP", OPTIONAL, V10, "Integer",
                                    0 <= Entry(xrt, d, "TP").n /\ Entry(xrt, d, "TP").n <= 6)>>)

\* an optional dictionary entry handed to a delegated validator
DelegatedDictEntry(xrt, dict, dictName, entryName, required, sinceVersion, kind) ==
    LET c == validateTypedEntry(xrt, dict, dictName, entryName, required, sinceVersion, kind, TRUE)
        d == Entry(xrt, dict, entryName)
    IN  IF Failed(c) \/ d.t = "nil" THEN <<c>>
        ELSE <<c, Delegated(d, entryName, dictName)>>

-----------------------------------------------------------------------------
(* Variant validators, part 1                                              *)

validateAnnotationDictTextStateModelOptional(xrt, dict, dictName, sinceVersion) ==
    Run(VersionCheck(xrt, dictName, sinceVersion) \o <<
        validateTypedEntry(xrt, dict, dictName, "Open", OPTIONAL, V10, "Boolean", TRUE),
        validateTypedEntry(xrt, dict, dictName, "Name", OPTIONAL, V10, "Name", TRUE),
        validateTypedEntry(xrt, dict, dictName, "State", OPTIONAL, V15, "String",
                           memberOf(Entry(xrt, dict, "State").s, {"None", "Unmarked"})),
        validateTypedEntry(xrt, dict, dictName, "StateModel", OPTIONAL, V15, "String",
                           memberOf(Entry(xrt, dict, "StateModel").s, {"Marked", "Review"}))>>)

validateAnnotationDictText(xrt, dict, dictName, sinceVersion) ==
    Run(VersionCheck(xrt, dictName, sinceVersion) \o <<
        validateTypedEntry(xrt, dict, dictName, "Open", OPTIONAL, V10, "Boolean", TRUE),
        validateTypedEntry(xrt, dict, dictName, "Name", OPTIONAL, V10, "Name", TRUE),
        validateTypedEntry(xrt, dict, dictName, "State", OPTIONAL, V15, "String",
                           memberOf(Entry(xrt, dict, "State").s, {"None", "Unmarked"})),
        validateTypedEntry(xrt, dict, dictName, "StateModel",
                           Entry(xrt, dict, "State").t # "nil", V15, "String",
                           memberOf(Entry(xrt, dict, "StateModel").s, {"Marked", "Review"}))>>)

validateActionOrDestinationBoth(xrt, dict, dictName, sinceVersion) ==
    LET a == validateTypedEntry(xrt, dict, dictName, "A", OPTIONAL,
                                IF rev = 1 THEN sinceVersion ELSE V11, "Dict", TRUE)
        d == Entry(xrt, dict, "A")
        obj == Entry(xrt, dict, "Dest")
        c == validateTypedEntry(xrt, dict, dictName, "Dest", OPTIONAL, sinceVersion, "Any", TRUE)
    IN  IF Failed(a) THEN <<a>>
        ELSE IF d.t # "nil" /\ (Failed(Delegated(d, "A", dictName)) \/ obj.t = "nil")
        THEN <<a, Delegated(d, "A", dictName)>>
        ELSE IF d.t # "nil"
        THEN <<a, Delegated(d, "A", dictName), c, Delegated(obj, "Dest", dictName)>>
        ELSE IF rev = 1
        THEN IF Failed(c) \/ obj.t = "nil" THEN <<a, c>>
             ELSE <<a, c, Delegated(obj, "Dest", dictName)>>
        ELSE IF ~Has(dict, "Dest") THEN <<a, Chk("Missing", "A or Dest", dictName)>>
        ELSE <<a, Delegated(dict.d["Dest"], "Dest", dictName)>>

\* rev 1: A and Dest are both optional with floor sinceVersion;
\* rev 2: A has floor 1.1, and a missing Dest is an error
validateActionOrDestination(xrt, dict, dictName, sinceVersion) ==
    LET a == validateTypedEntry(xrt, dict, dictName, "A", OPTIONAL,
                                IF rev = 1 THEN sinceVersion ELSE V11, "Dict", TRUE)
        d == Entry(xrt, dict, "A")
        obj == Entry(xrt, dict, "Dest")
    IN  IF Failed(a) THEN <<a>>
        ELSE IF d.t # "nil" THEN <<a, Delegated(d, "A", dictName)>>
        ELSE IF rev = 1
        THEN LET c == validateTypedEntry(xrt, dict, dictName, "Dest", OPTIONAL, sinceVersion, "Any", TRUE)
             IN  IF Failed(c) \/ obj.t = "nil" THEN <<a, c>>
                 ELSE <<a, c, Delegated(obj, "Dest", dictName)>>
        ELSE IF ~Has(dict, "Dest") THEN <<a, Chk("Missing", "A or Dest", dictName)>>
        ELSE <<a, Delegated(dict.d["Dest"], "Dest", dictName)>>

validateURIActionDictEntry(xrt, dict, dictName, entryName, required, sinceVersion) ==
    LET c == validateTypedEntry(xrt, dict, dictName, entryName, required, sinceVersion, "Dict", TRUE)
        d == Entry(xrt, dict, entryName)
    IN  IF Failed(c) \/ d.t = "nil" THEN <<c>>
        ELSE Run(<<c,
            validateTypedEntry(xrt, d, "URIActionDict", "Type", OPTIONAL, V10, "Name",
                               Entry(xrt, d, "Type").s = "Action"),
            validateTypedEntry(xrt, d, "URIActionDict", "S", REQUIRED, V10, "Name",
                               Entry(xrt, d, "S").s = "URI"),
            Delegated(d, entryName, "URIActionDict")>>)

\* "sinceVersion := strict; if ValidationMode == ValidationRelaxed
\*  { sinceVersion = relaxed }"
LinkBSSinceRaised(mode) ==
    IF mode = ValidationRelaxed THEN V17 ELSE V16

LinkBSSinceSwapped(mode) ==
    IF mode = ValidationRelaxed THEN V16 ELSE V13

LinkBSSince(mode) ==
    IF mode = ValidationRelaxed THEN (IF rev = 1 THEN V13 ELSE V14) ELSE V16

validateAnnotationDictLink(xrt, dict, dictName, sinceVersion) ==
    Run(VersionCheck(xrt, dictName, sinceVersion)
        \o validateActionOrDestination(xrt, dict, dictName, V11)
        \o <<validateTypedEntry(xrt, dict, dictName, "H", OPTIONAL, V12, "Name", TRUE)>>
        \o validateURIActionDictEntry(xrt, dict, dictName, "PA", OPTIONAL, V13)
        \o <<validateTypedEntry(xrt, dict, dictName, "QuadPoints", OPTIONAL, V16, "NumberArray",
                                Len(Entry(xrt, dict, "QuadPoints").e) = 8)>>
        \o validateBorderStyleDict(xrt, dict, dictName, "BS", OPTIONAL,
                                   LinkBSSince(xrt.ValidationMode)))

FreeTextQSince(mode) == IF mode = ValidationRelaxed THEN V13 ELSE V14
FreeTextRCSince(mode) == IF mode = ValidationRelaxed THEN V14 ELSE V15
FreeTextCLSince(mode) == IF mode = ValidationRelaxed THEN V14 ELSE V16
FreeTextITSince(mode) == IF mode = ValidationRelaxed THEN V14 ELSE V16
FreeTextRDSince(mode) == IF mode = ValidationRelaxed THEN V14 ELSE V16
FreeTextBSSince(mode) == IF mode = ValidationRelaxed THEN V13 ELSE V16
FreeTextLESince(mode) == IF mode = ValidationRelaxed THEN V14 ELSE V16

validateAnnotationDictFreeTextPart1(xrt, dict, dictName, sinceVersion) ==
    Run(<<
        validateTypedEntry(xrt, dict, dictName, "DA", REQUIRED, V10, "String", TRUE),
        validateTypedEntry(xrt, dict, dictName, "Q", OPTIONAL, FreeTextQSince(xrt.ValidationMode),
                           "Integer", 0 <= Entry(xrt, dict, "Q").n /\ Entry(xrt, dict, "Q").n <= 2),
        validateTypedEntry(xrt, dict, dictName, "RC", OPTIONAL, FreeTextRCSince(xrt.ValidationMode),
                           "StringOrStream", TRUE),
        validateTypedEntry(xrt, dict, dictName, "DS", OPTIONAL, V15, "String", TRUE),
        validateTypedEntry(xrt, dict, dictName, "CL", OPTIONAL, FreeTextCLSince(xrt.ValidationMode),
                           "NumberArray", Len(Entry(xrt, dict, "CL").e) = 4 \/ Len(Entry(xrt, dict, "CL").e) = 6)>>)

validateAnnotationDictFreeTextPart2(xrt, dict, dictName, sinceVersion) ==
    Run(<<validateTypedEntry(xrt, dict, dictName, "IT", OPTIONAL, FreeTextITSince(xrt.ValidationMode),
                             "Name", memberOf(Entry(xrt, dict, "IT").s,
                                {"FreeText", "FreeTextCallout", "FreeTextTypeWriter", "FreeTextTypewriter"}))>>
        \o validateBorderEffectDictEntry(xrt, dict, dictName, "BE", OPTIONAL, V15)
        \o <<validateTypedEntry(xrt, dict, dictName, "RD", OPTIONAL, FreeTextRDSince(xrt.ValidationMode),
                                "Rectangle", TRUE)>>
        \o validateBorderStyleDict(xrt, dict, dictName, "BS", OPTIONAL, FreeTextBSSince(xrt.ValidationMode))
        \o <<validateTypedEntry(xrt, dict, dictName, "LE", OPTIONAL, FreeTextLESince(xrt.ValidationMode),
                                "Name", TRUE)>>)

validateAnnotationDictFreeText(xrt, dict, dictName, sinceVersion) ==
    Run(VersionCheck(xrt, dictName, sinceVersion)
        \o validateAnnotationDictFreeTextPart1(xrt, dict, dictName, sinceVersion)
        \o validateAnnotationDictFreeTextPart2(xrt, dict, dictName, sinceVersion))

-----------------------------------------------------------------------------
(* Variant validators, part 2                                              *)

validateEntryMeasure(xrt, dict, dictName, required, sinceVersion) ==
    DelegatedDictEntry(xrt, dict, dictName, "Measure", required, sinceVersion, "Dict")

validateCP(s) == s = "Inline" \/ s = "Top"

\* the floor of LE, reused for IC
LineLESince(mode) == IF mode = ValidationRelaxed THEN V13 ELSE V14

validateAnnotationDictLine(xrt, dict, dictName, sinceVersion) ==
    Run(VersionCheck(xrt, dictName, sinceVersion)
        \o <<validateTypedEntry(xrt, dict, dictName, "L", REQUIRED, V10, "NumberArray",
                                Len(Entry(xrt, dict, "L").e) = 4)>>
        \o validateBorderStyleDict(xrt, dict, dictName, "BS", OPTIONAL, V10)
        \o <<
        validateTypedEntry(xrt, dict, dictName, "LE", OPTIONAL, LineLESince(xrt.ValidationMode),
                           "NameArray", Len(Entry(xrt, dict, "LE").e) = 2),
        validateTypedEntry(xrt, dict, dictName, "IC", OPTIONAL, LineLESince(xrt.ValidationMode),
                           "NumberArray", TRUE),
        validateTypedEntry(xrt, dict, dictName, "LLE", OPTIONAL, V16, "Number",
                           Tenths(Entry(xrt, dict, "LLE")) > 0),
        validateTypedEntry(xrt, dict, dictName, "LL", Entry(xrt, dict, "LLE").t # "nil", V16,
                           "Number", TRUE),
        validateTypedEntry(xrt, dict, dictName, "Cap", OPTIONAL, V16, "Boolean", TRUE),
        validateTypedEntry(xrt, dict, dictName, "IT", OPTIONAL, V16, "Name", TRUE),
        validateTypedEntry(xrt, dict, dictName, "LLO", OPTIONAL, V17, "Number",
                           Tenths(Entry(xrt, dict, "LLO")) > 0),
        validateTypedEntry(xrt, dict, dictName, "CP", OPTIONAL, V17, "Name",
                           validateCP(Entry(xrt, dict, "CP").s))>>
        \o validateEntryMeasure(xrt, dict, dictName, OPTIONAL, V17)
        \o <<validateTypedEntry(xrt, dict, dictName, "CO", OPTIONAL, V17, "NumberArray",
                                Len(Entry(xrt, dict, "CO").e) = 2)>>)

CircleOrSquareICSince(mode) == IF mode = ValidationRelaxed THEN V13 ELSE V14

validateAnnotationDictCircleOrSquare(xrt, dict, dictName, sinceVersion) ==
    Run(VersionCheck(xrt, dictName, sinceVersion)
        \o validateBorderStyleDict(xrt, dict, dictName, "BS", OPTIONAL, V10)
        \o <<validateTypedEntry(xrt, dict, dictName, "IC", OPTIONAL,
                                CircleOrSquareICSince(xrt.ValidationMode), "NumberArray", TRUE)>>
        \o validateBorderEffectDictEntry(xrt, dict, dictName, "BE", OPTIONAL, V15)
        \o <<validateTypedEntry(xrt, dict, dictName, "RD", OPTIONAL, V15, "Rectangle", TRUE)>>)

validateIntentAnyVersion(xrt, s) ==
    memberOf(s, {"PolygonCloud", "PolyLineDimension", "PolygonDimension"})

validateIntent(xrt, s) ==
    IF xrt.Version = V16 THEN s = "PolygonCloud"
    ELSE IF xrt.Version = V17
         THEN memberOf(s, {"PolygonCloud", "PolyLineDimension", "PolygonDimension"})
         ELSE FALSE

validateEntryIT(xrt, dict, dictName, required, sinceVersion) ==
    <<validateTypedEntry(xrt, dict, dictName, "IT", required, sinceVersion, "Name",
                         validateIntent(xrt, Entry(xrt, dict, "IT").s))>>

validateAnnotationDictPolyLine(xrt, dict, dictName, sinceVersion) ==
    Run(VersionCheck(xrt, dictName, sinceVersion)
        \o <<validateTypedEntry(xrt, dict, dictName, "Vertices", REQUIRED, V10, "NumberArray", TRUE)>>
        \o (IF dictName = "PolyLine"
            THEN <<validateTypedEntry(xrt, dict, dictName, "LE", OPTIONAL, V10, "NameArray",
                                      Len(Entry(xrt, dict, "LE").e) = 2)>>
            ELSE <<>>)
        \o validateBorderStyleDict(xrt, dict, dictName, "BS", OPTIONAL, V10)
        \o <<validateTypedEntry(xrt, dict, dictName, "IC", OPTIONAL, V14, "NumberArray",
                                Len(Entry(xrt, dict, "IC").e) \in {1, 3, 4})>>
        \o (IF dictName = "Polygon"
            THEN validateBorderEffectDictEntry(xrt, dict, dictName, "BE", OPTIONAL, V10)
            ELSE <<>>)
        \o validateEntryIT(xrt, dict, dictName, OPTIONAL, V16))

validateTextMarkupAnnotation(xrt, dict, dictName, sinceVersion) ==
    Run(VersionCheck(xrt, dictName, sinceVersion)
        \o <<validateTypedEntry(xrt, dict, dictName, "QuadPoints", REQUIRED, V10, "NumberArray",
                                Len(Entry(xrt, dict, "QuadPoints").e) = 8)>>)

validateAnnotationDictStamp(xrt, dict, dictName, sinceVersion) ==
    Run(VersionCheck(xrt, dictName, sinceVersion)
        \o <<validateTypedEntry(xrt, dict, dictName, "Name", OPTIONAL, V10, "Name", TRUE)>>)

validateAnnotationDictCaret(xrt, dict, dictName, sinceVersion) ==
    Run(VersionCheck(xrt, dictName, sinceVersion) \o <<
        validateTypedEntry(xrt, dict, dictName, "RD", OPTIONAL, V15, "Rectangle", TRUE),
        validateTypedEntry(xrt, dict, dictName, "Sy", OPTIONAL, V10, "Name",
                           Entry(xrt, dict, "Sy").s = "P" \/ Entry(xrt, dict, "Sy").s = "None")>>)

validateAnnotationDictInk(xrt, dict, dictName, sinceVersion) ==
    Run(VersionCheck(xrt, dictName, sinceVersion)
        \o <<validateTypedEntry(xrt, dict, dictName, "InkList", REQUIRED, V10, "ArrayArray", TRUE)>>
        \o validateBorderStyleDict(xrt, dict, dictName, "BS", OPTIONAL, V10))

\* Parent: a dereference error is returned; a Parent that resolves to null
\* returns nil at once, before Open is looked at
validateAnnotationDictPopup(xrt, dict, dictName, sinceVersion) ==
    LET p == validateIndRefEntry(xrt, dict, dictName, "Parent", OPTIONAL, V10)
        hasRef == Has(dict, "Parent") /\ dict.d["Parent"].t = "ref"
        r == DereferenceDict(xrt, dict.d["Parent"])
        open == validateTypedEntry(xrt, dict, dictName, "Open", OPTIONAL, V10, "Boolean", TRUE)
    IN  Run(VersionCheck(xrt, dictName, sinceVersion)
            \o (IF Failed(p) \/ ~hasRef THEN <<p, open>>
                ELSE IF r.err THEN <<p, Chk("Deref", "Parent", dictName)>>
                ELSE IF r.o.t = "nil" THEN <<p>>
                ELSE <<p, open>>))

validateAnnotationDictFileAttachment(xrt, dict, dictName, sinceVersion) ==
    Run(VersionCheck(xrt, dictName, sinceVersion)
        \o DelegatedDictEntry(xrt, dict, dictName, "FS", REQUIRED, V10, "Any")
        \o <<validateTypedEntry(xrt, dict, dictName, "Name", OPTIONAL, V10, "Name", TRUE)>>)

validateAnnotationDictSound(xrt, dict, dictName, sinceVersion) ==
    Run(VersionCheck(xrt, dictName, sinceVersion)
        \o DelegatedDictEntry(xrt, dict, dictName, "Sound", REQUIRED, V10, "StreamDict")
        \o <<validateTypedEntry(xrt, dict, dictName, "Name", OPTIONAL, V10, "Name", TRUE)>>)

\* the key looked up for the aspect ratio is spelled "Ascpect" in the code
validateMovieDict(xrt, dict) ==
    Run(DelegatedDictEntry(xrt, dict, "movieDict", "F", REQUIRED, V10, "Any")
        \o <<
        validateTypedEntry(xrt, dict, "movieDict", "Ascpect", OPTIONAL, V10, "IntegerArray",
                           Len(Entry(xrt, dict, "Ascpect").e) = 2),
        validateTypedEntry(xrt, dict, "movieDict", "Rotate", OPTIONAL, V10, "Integer", TRUE),
        validateTypedEntry(xrt, dict, "movieDict", "Poster", OPTIONAL, V10, "BooleanOrStream", TRUE)>>)

validateAnnotationDictMovie(xrt, dict, dictName, sinceVersion) ==
    LET m == validateTypedEntry(xrt, dict, dictName, "Movie", REQUIRED, V10, "Dict", TRUE)
        r == Dereference(xrt, dict.d["A"])
        a == IF ~Has(dict, "A") THEN <<>>
             ELSE IF r.err THEN <<Chk("Deref", "A", dictName)>>
             ELSE IF r.o.t = "dict" THEN <<Delegated(r.o, "A", dictName)>>
             ELSE <<Chk("", "A", dictName)>>
    IN  Run(VersionCheck(xrt, dictName, sinceVersion)
            \o <<validateTypedEntry(xrt, dict, dictName, "T", OPTIONAL, V10, "String", TRUE), m>>
            \o (IF Failed(m) THEN <<>> ELSE validateMovieDict(xrt, Entry(xrt, dict, "Movie")))
            \o a)

-----------------------------------------------------------------------------
(* Variant validators, part 3                                              *)

\* the checks of a call whose returned error the caller never reads
Ignored(tr) ==
    CHOOSE r \in {[i \in 1..Len(p) |-> [p[i] EXCEPT !.ign = TRUE]] : p \in {tr}} : TRUE

\* BS: "validateBorderStyleDict(...)" is called as a statement, its error is
\* dropped and the "if err != nil" after it tests the error of AA
validateAnnotationDictWidget(xrt, dict, dictName, sinceVersion) ==
    Run(VersionCheck(xrt, dictName, sinceVersion)
        \o <<validateTypedEntry(xrt, dict, dictName, "H", OPTIONAL, V10, "Name",
                                memberOf(Entry(xrt, dict, "H").s, {"N", "I", "O", "P", "T", "A"}))>>
        \o validateAppearanceCharacteristicsDictEntry(xrt, dict, dictName, "MK", OPTIONAL, V10)
        \o DelegatedDictEntry(xrt, dict, dictName, "A", OPTIONAL, V11, "Dict")
        \o DelegatedDictEntry(xrt, dict, dictName, "AA", OPTIONAL, V12, "Dict")
        \o Ignored(validateBorderStyleDict(xrt, dict, dictName, "BS", OPTIONAL, V12))
        \o <<validateIndRefEntry(xrt, dict, dictName, "Parent", OPTIONAL, V10)>>)

validateAnnotationDictScreen(xrt, dict, dictName, sinceVersion) ==
    Run(VersionCheck(xrt, dictName, sinceVersion)
        \o <<validateTypedEntry(xrt, dict, dictName, "T", OPTIONAL, V10, "Name", TRUE)>>
        \o validateAppearanceCharacteristicsDictEntry(xrt, dict, dictName, "MK", OPTIONAL, V10)
        \o DelegatedDictEntry(xrt, dict, dictName, "A", OPTIONAL, V10, "Dict")
        \o DelegatedDictEntry(xrt, dict, dictName, "AA", OPTIONAL, V12, "Dict"))

validateAppearDictEntry(xrt, dict, dictName, required, sinceVersion) ==
    DelegatedDictEntry(xrt, dict, dictName, "AP", required, sinceVersion, "Dict")

validateAnnotationDictPrinterMarkAPFirst(xrt, dict, dictName, sinceVersion) ==
    Run(VersionCheck(xrt, dictName, sinceVersion) \o <<
        validateTypedEntry(xrt, dict, dictName, "MN", OPTIONAL, V10, "Name", TRUE)>>
        \o validateAppearDictEntry(xrt, dict, dictName, REQUIRED, V12)
        \o <<validateTypedEntry(xrt, dict, dictName, "F", REQUIRED, V11, "Integer", TRUE)>>)

validateAnnotationDictPrinterMark(xrt, dict, dictName, sinceVersion) ==
    Run(VersionCheck(xrt, dictName, sinceVersion) \o <<
        validateTypedEntry(xrt, dict, dictName, "MN", OPTIONAL, V10, "Name", TRUE),
        validateTypedEntry(xrt, dict, dictName, "F", REQUIRED, V11, "Integer", TRUE)>>
        \o validateAppearDictEntry(xrt, dict, dictName, REQUIRED, V12))

\* the FontFauxing predicate: nil elements and elements resolving to null
\* are skipped, any other element must resolve to a dictionary of Type Font,
\* and at least one such dictionary must have been seen
\* the loop of the closure validateFontDictArray from element i on, with the
\* value retValue has on entry
RECURSIVE FontDictLoop(_, _, _, _)
FontDictLoop(xrt, e, i, retValue) ==
    IF i > Len(e) THEN retValue
    ELSE IF e[i].t = "nil" THEN FontDictLoop(xrt, e, i + 1, retValue)
    ELSE LET r == DereferenceDict(xrt, e[i])
         IN  IF r.err THEN FALSE
             ELSE IF r.o.t = "nil" THEN FontDictLoop(xrt, e, i + 1, retValue)
             ELSE IF DictType(r.o).t = "nil" \/ DictType(r.o).s # "Font" THEN FALSE
             ELSE FontDictLoop(xrt, e, i + 1, TRUE)

validateFontDictArrayNoneNeeded(xrt, a) == FontDictLoop(xrt, a.e, 1, TRUE)

validateFontDictArray(xrt, a) == FontDictLoop(xrt, a.e, 1, FALSE)

validateAnnotationDictTrapNet(xrt, dict, dictName, sinceVersion) ==
    Run(VersionCheck(xrt, dictName, sinceVersion) \o <<
        validateTypedEntry(xrt, dict, dictName, "LastModified", OPTIONAL, V10, "Date", TRUE),
        validateTypedEntry(xrt, dict, dictName, "Version", OPTIONAL, V10, "Array", TRUE),
        validateTypedEntry(xrt, dict, dictName, "AnnotStates", OPTIONAL, V10, "NameArray", TRUE),
        validateTypedEntry(xrt, dict, dictName, "FontFauxing", OPTIONAL, V10, "Array",
                           validateFontDictArray(xrt, Entry(xrt, dict, "FontFauxing"))),
        validateTypedEntry(xrt, dict, dictName, "F", REQUIRED, V11, "Integer", TRUE)>>)

validateFixedPrintDict(xrt, d) ==
    IsOK(Run(<<
        validateTypedEntry(xrt, d, "fixedPrintDict", "Type", REQUIRED, V10, "Name",
                           Entry(xrt, d, "Type").s = "FixedPrint"),
        validateTypedEntry(xrt, d, "fixedPrintDict", "Matrix", OPTIONAL, V10, "IntegerArray",
                           Len(Entry(xrt, d, "Matrix").e) = 6),
        validateTypedEntry(xrt, d, "fixedPrintDict", "H", OPTIONAL, V10, "Number", TRUE),
        validateTypedEntry(xrt, d, "fixedPrintDict", "V", OPTIONAL, V10, "Number", TRUE)>>))

validateAnnotationDictWatermark(xrt, dict, dictName, sinceVersion) ==
    Run(VersionCheck(xrt, dictName, sinceVersion)
        \o <<validateTypedEntry(xrt, dict, dictName, "FixedPrint", OPTIONAL, V10, "Dict",
                                validateFixedPrintDict(xrt, Entry(xrt, dict, "FixedPrint")))>>)

\* rev 1 gives every entry the floor 1.6, rev 2 the floor 1.0
validateAnnotationDict3D(xrt, dict, dictName, sinceVersion) ==
    LET since == IF rev = 1 THEN V16 ELSE V10
    IN  Run(VersionCheck(xrt, dictName, sinceVersion) \o <<
            validateTypedEntry(xrt, dict, dictName, "3DD", REQUIRED, since, "StreamDictOrDict", TRUE),
            validateTypedEntry(xrt, dict, dictName, "3DV", OPTIONAL, since, "Any", TRUE),
            validateTypedEntry(xrt, dict, dictName, "3DA", OPTIONAL, since, "Dict", TRUE),
            validateTypedEntry(xrt, dict, dictName, "3DI", OPTIONAL, since, "Boolean", TRUE)>>)

validateICArray(xrt, arr) ==
    /\ Len(arr.e) = 3
    /\ \A i \in 1..Len(arr.e) :
          LET r == Dereference(xrt, arr.e[i])
          IN  /\ ~r.err
              /\ (IsNumber(r.o) => (0 <= Tenths(r.o) /\ Tenths(r.o) <= 10))

validateEntryIC(xrt, dict, dictName, required, sinceVersion) ==
    <<validateTypedEntry(xrt, dict, dictName, "IC", required, sinceVersion, "NumberArray",
                         validateICArray(xrt, Entry(xrt, dict, "IC")))>>

validateAnnotationDictRedact(xrt, dict, dictName, sinceVersion) ==
    Run(VersionCheck(xrt, dictName, sinceVersion)
        \o <<validateTypedEntry(xrt, dict, dictName, "QuadPoints", OPTIONAL, V10, "NumberArray", TRUE)>>
        \o validateEntryIC(xrt, dict, dictName, OPTIONAL, V10)
        \o <<
        validateTypedEntry(xrt, dict, dictName, "RO", OPTIONAL, V10, "StreamDict", TRUE),
        validateTypedEntry(xrt, dict, dictName, "OverlayText", OPTIONAL, V10, "String", TRUE),
        validateTypedEntry(xrt, dict, dictName, "Repeat", OPTIONAL, V10, "Boolean", TRUE),
        validateTypedEntry(xrt, dict, dictName, "DA", REQUIRED, V10, "String", TRUE),
        validateTypedEntry(xrt, dict, dictName, "Q", OPTIONAL, V10, "Integer", TRUE)>>)

validateExDataDict(xrt, dict) ==
    Run(<<
        validateTypedEntry(xrt, dict, "ExData", "Type", OPTIONAL, V10, "Name",
                           Entry(xrt, dict, "Type").s = "ExData"),
        validateTypedEntry(xrt, dict, "ExData", "Subtype", REQUIRED, V10, "Name",
                           Entry(xrt, dict, "Subtype").s = "Markup3D")>>)

-----------------------------------------------------------------------------
(* General annotation validator                                            *)

validateEntryP(xrt, dict, dictName, required, sinceVersion) ==
    LET p == validateIndRefEntry(xrt, dict, dictName, "P", required, sinceVersion)
        hasRef == Has(dict, "P") /\ dict.d["P"].t = "ref"
        r == DereferenceDict(xrt, dict.d["P"])
    IN  IF Failed(p) \/ ~hasRef THEN <<p>>
        ELSE IF r.err THEN <<p, Chk("Deref", "P", dictName)>>
        ELSE IF r.o.t = "nil" THEN <<p, Chk("Nil", "P", dictName)>>
        ELSE <<p, validateTypedEntry(xrt, r.o, "pageDict", "Type", REQUIRED, V10, "Name",
                                     Entry(xrt, r.o, "Type").s = "Page")>>

validateOptionalContent(xrt, dict, dictName, entryName, required, sinceVersion) ==
    LET c == validateTypedEntry(xrt, dict, dictName, entryName, required, sinceVersion, "Dict", TRUE)
        d == Entry(xrt, dict, entryName)
    IN  IF Failed(c) \/ d.t = "nil" THEN <<c>>
        ELSE Run(<<c,
            validateTypedEntry(xrt, d, "optionalContent", "Type", REQUIRED, sinceVersion, "Name",
                               Entry(xrt, d, "Type").s = "OCG" \/ Entry(xrt, d, "Type").s = "OCMD"),
            Delegated(d, entryName, "optionalContent")>>)

validateBorderArrayLength(a) == Len(a.e) = 3 \/ Len(a.e) = 4

validateAnnotationDictGeneral(xrt, dict, dictName) ==
    Run(<<
        validateTypedEntry(xrt, dict, dictName, "Type", OPTIONAL, V10, "Name",
                           Entry(xrt, dict, "Type").s = "Annot"),
        validateTypedEntry(xrt, dict, dictName, "Subtype", REQUIRED, V10, "Name", TRUE),
        validateTypedEntry(xrt, dict, dictName, "Rect", REQUIRED, V10, "Rectangle", TRUE),
        validateTypedEntry(xrt, dict, dictName, "Contents", OPTIONAL, V10, "String", TRUE)>>
        \o validateEntryP(xrt, dict, dictName, OPTIONAL, V10)
        \o <<
        validateTypedEntry(xrt, dict, dictName, "NM", OPTIONAL, V14, "String", TRUE),
        validateTypedEntry(xrt, dict, dictName, "M", OPTIONAL, V11, "String", TRUE),
        validateTypedEntry(xrt, dict, dictName, "F", OPTIONAL, V11, "Integer", TRUE)>>
        \o validateAppearDictEntry(xrt, dict, dictName, OPTIONAL, V12)
        \o <<
        validateTypedEntry(xrt, dict, dictName, "AS", OPTIONAL, V11, "Name", TRUE),
        validateTypedEntry(xrt, dict, dictName, "Border", OPTIONAL, V10, "NumberArray",
                           validateBorderArrayLength(Entry(xrt, dict, "Border"))),
        validateTypedEntry(xrt, dict, dictName, "C", OPTIONAL, V11, "NumberArray", TRUE),
        validateTypedEntry(xrt, dict, dictName, "StructParent", OPTIONAL, V13, "Integer", TRUE)>>
        \o validateOptionalContent(xrt, dict, dictName, "OC", OPTIONAL, V15))

-----------------------------------------------------------------------------
(* Subtype dispatch table (the map literal of validateAnnotationDictConcrete) *)

MarkupSubtypes ==
    {"Text", "FreeText", "Line", "Polygon", "PolyLine", "Highlight", "Underline",
     "Squiggly", "StrikeOut", "Square", "Circle", "Stamp", "Caret", "Ink",
     "FileAttachment", "Sound", "Redact"}

NonMarkupSubtypes ==
    {"Link", "Popup", "Movie", "Widget", "Screen", "PrinterMark", "TrapNet",
     "Watermark", "3D"}

Subtypes == MarkupSubtypes \cup NonMarkupSubtypes

\* the sinceVersion column
SubtypeSince(k) ==
    CASE k \in {"Text", "Link"} -> V10
      [] k \in {"Sound", "Movie", "Widget"} -> V12
      [] k \in {"FreeText", "Line", "Highlight", "Underline", "StrikeOut", "Square",
                "Circle", "Stamp", "Ink", "Popup", "FileAttachment", "TrapNet"} -> V13
      [] k \in {"Squiggly", "PrinterMark"} -> V14
      [] k \in {"Polygon", "PolyLine", "Caret", "Screen"} -> V15
      [] k \in {"Watermark", "3D"} -> V16
      [] k = "Redact" -> V17

\* the markup column
SubtypeMarkupAll(k) == TRUE

SubtypeMarkupNone(k) == FALSE

SubtypeMarkup(k) == k \in MarkupSubtypes

\* the validate column: v.validate(xRefTable, dict, k [, v.sinceVersion])
validateVariant(xrt, dict, k, sinceVersion) ==
    CASE k = "Text" -> validateAnnotationDictText(xrt, dict, k, sinceVersion)
      [] k = "Link" -> validateAnnotationDictLink(xrt, dict, k, sinceVersion)
      [] k = "FreeText" -> validateAnnotationDictFreeText(xrt, dict, k, sinceVersion)
      [] k = "Line" -> validateAnnotationDictLine(xrt, dict, k, sinceVersion)
      [] k \in {"Polygon", "PolyLine"} -> validateAnnotationDictPolyLine(xrt, dict, k, sinceVersion)
      [] k \in {"Highlight", "Underline", "Squiggly", "StrikeOut"} ->
            validateTextMarkupAnnotation(xrt, dict, k, sinceVersion)
      [] k \in {"Square", "Circle"} -> validateAnnotationDictCircleOrSquare(xrt, dict, k, sinceVersion)
      [] k = "Stamp" -> validateAnnotationDictStamp(xrt, dict, k, sinceVersion)
      [] k = "Caret" -> validateAnnotationDictCaret(xrt, dict, k, sinceVersion)
      [] k = "Ink" -> validateAnnotationDictInk(xrt, dict, k, sinceVersion)
      [] k = "Popup" -> validateAnnotationDictPopup(xrt, dict, k, sinceVersion)
      [] k = "FileAttachment" -> validateAnnotationDictFileAttachment(xrt, dict, k, sinceVersion)
      [] k = "Sound" -> validateAnnotationDictSound(xrt, dict, k, sinceVersion)
      [] k = "Movie" -> validateAnnotationDictMovie(xrt, dict, k, sinceVersion)
      [] k = "Widget" -> validateAnnotationDictWidget(xrt, dict, k, sinceVersion)
      [] k = "Screen" -> validateAnnotationDictScreen(xrt, dict, k, sinceVersion)
      [] k = "PrinterMark" -> validateAnnotationDictPrinterMark(xrt, dict, k, sinceVersion)
      [] k = "TrapNet" -> validateAnnotationDictTrapNet(xrt, dict, k, sinceVersion)
      [] k = "Watermark" -> validateAnnotationDictWatermark(xrt, dict, k, sinceVersion)
      [] k = "3D" -> validateAnnotationDict3D(xrt, dict, k, sinceVersion)
      [] k = "Redact" -> validateAnnotationDictRedact(xrt, dict, k, sinceVersion)

-----------------------------------------------------------------------------
(* Markup overlay, dispatch and the annotation validator.  depth counts    *)
(* the nested validateAnnotationDict calls; a call nested deeper than      *)
(* MaxDepth stands for a recursion that does not return.                   *)

MaxDepth == 4

RECURSIVE validateAnnotationDict(_, _, _)

validatePopupEntryAnySubtype(xrt, dict, dictName, entryName, required, sinceVersion, depth) ==
    LET c == validateTypedEntry(xrt, dict, dictName, entryName, required, sinceVersion, "Dict", TRUE)
        d == Entry(xrt, dict, entryName)
    IN  IF Failed(c) \/ d.t = "nil" THEN <<c>>
        ELSE <<c>> \o validateAnnotationDict(xrt, d, depth + 1).tr

validatePopupEntry(xrt, dict, dictName, entryName, required, sinceVersion, depth) ==
    LET c == validateTypedEntry(xrt, dict, dictName, entryName, required, sinceVersion, "Dict", TRUE)
        d == Entry(xrt, dict, entryName)
        st == validateTypedEntry(xrt, d, dictName, "Subtype", REQUIRED, V10, "Name",
                                 Entry(xrt, d, "Subtype").s = "Popup")
    IN  IF Failed(c) \/ d.t = "nil" THEN <<c>>
        ELSE IF Failed(st) THEN <<c, st>>
        ELSE <<c, st>> \o validateAnnotationDict(xrt, d, depth + 1).tr

validateIRTEntryShallow(xrt, dict, dictName, entryName, required, sinceVersion, depth) ==
    <<validateTypedEntry(xrt, dict, dictName, entryName, required, sinceVersion, "Dict", TRUE)>>

validateIRTEntry(xrt, dict, dictName, entryName, required, sinceVersion, depth) ==
    LET c == validateTypedEntry(xrt, dict, dictName, entryName, required, sinceVersion, "Dict", TRUE)
        d == Entry(xrt, dict, entryName)
    IN  IF Failed(c) \/ d.t = "nil" THEN <<c>>
        ELSE <<c>> \o validateAnnotationDict(xrt, d, depth + 1).tr

MarkupSubjSinceStrict(mode) == V15

MarkupSubjSince(mode) ==
    IF rev = 1 /\ mode = ValidationRelaxed THEN V14 ELSE V15

\* the checks before, between and after the two recursion points are
\* evaluated only when they are reached
validateMarkupAnnotation(xrt, dict, depth) ==
    LET dictName == "markupAnnot"
        t == <<validateTypedEntry(xrt, dict, dictName, "T", OPTIONAL, V11, "String", TRUE)>>
        popup == validatePopupEntry(xrt, dict, dictName, "Popup", OPTIONAL, V13, depth)
        mid == Run(<<
                validateTypedEntry(xrt, dict, dictName, "CA", OPTIONAL, V14, "Number", TRUE),
                validateTypedEntry(xrt, dict, dictName, "RC", OPTIONAL, V15, "StringOrStream", TRUE),
                validateTypedEntry(xrt, dict, dictName, "CreationDate", OPTIONAL, V15, "Date", TRUE)>>)
        irt == validateIRTEntry(xrt, dict, dictName, "IRT", OPTIONAL, V15, depth)
        ex == validateTypedEntry(xrt, dict, dictName, "ExData", OPTIONAL, V17, "Dict", TRUE)
        exd == Entry(xrt, dict, "ExData")
        tail == Run(<<
                validateTypedEntry(xrt, dict, dictName, "Subj", OPTIONAL,
                                   MarkupSubjSince(xrt.ValidationMode), "String", TRUE),
                validateTypedEntry(xrt, dict, dictName, "RT", OPTIONAL, V16, "Name",
                                   Entry(xrt, dict, "RT").s = "R" \/ Entry(xrt, dict, "RT").s = "Group"),
                validateTypedEntry(xrt, dict, dictName, "IT", OPTIONAL, V16, "Name", TRUE),
                ex>>
                \o (IF Failed(ex) \/ exd.t = "nil" THEN <<>> ELSE validateExDataDict(xrt, exd)))
    IN  AndThen(AndThen(AndThen(AndThen(t, popup), mid), irt), tail)

validateAnnotationDictConcreteMarkupFirst(xrt, dict, subtype, depth) ==
    AndThen(validateMarkupAnnotation(xrt, dict, depth),
            <<Chk("UnknownSubtype", subtype.s, "annotDict")>>)

validateAnnotationDictConcreteVersionFirst(xrt, dict, subtype, depth) ==
    IF subtype.s \notin Subtypes
    THEN <<Chk("UnknownSubtype", subtype.s, "annotDict")>>
    ELSE LET k == subtype.s
             ver == <<ValidateVersion(xrt, k, SubtypeSince(k))>>
             mk == IF SubtypeMarkup(k) THEN validateMarkupAnnotation(xrt, dict, depth) ELSE <<>>
         IN  AndThen(AndThen(ver, mk), validateVariant(xrt, dict, k, SubtypeSince(k)))

\* rev 1: version, then markup overlay, then variant;
\* rev 2: markup overlay, then variant (which opens with the version check)
validateAnnotationDictConcrete(xrt, dict, subtype, depth) ==
    IF subtype.s \notin Subtypes
    THEN <<Chk("UnknownSubtype", subtype.s, "annotDict")>>
    ELSE LET k == subtype.s
             ver == IF rev = 1 THEN <<ValidateVersion(xrt, k, SubtypeSince(k))>> ELSE <<>>
             mk == IF SubtypeMarkup(k) THEN validateMarkupAnnotation(xrt, dict, depth) ELSE <<>>
         IN  AndThen(AndThen(ver, mk), validateVariant(xrt, dict, k, SubtypeSince(k)))

\* AAPL:AKExtras.  The nested annotation dictionary is handed to
\* validateAnnotationDict whether or not the optional entry was found.
validateAAPLAKExtrasDictEntry(xrt, dict, dictName, entryName, required, sinceVersion, depth) ==
    LET c == validateTypedEntry(xrt, dict, dictName, entryName, required, sinceVersion, "Dict", TRUE)
        d == Entry(xrt, dict, entryName)
        pre == Run(<<c,
                validateTypedEntry(xrt, d, "AAPLAKExtrasDict", "AAPL:AKAnnotationObject", OPTIONAL,
                                   sinceVersion, "String", TRUE),
                validateTypedEntry(xrt, d, "AAPLAKExtrasDict", "AAPL:AKPDFAnnotationDictionary",
                                   OPTIONAL, sinceVersion, "Dict", TRUE)>>)
    IN  IF Failed(c) \/ d.t = "nil" THEN <<c>>
        ELSE AndThen(pre,
                     validateAnnotationDict(xrt, Entry(xrt, d, "AAPL:AKPDFAnnotationDictionary"),
                                            depth + 1).tr)

validateAnnotationDictSpecial(xrt, dict, dictName, depth) ==
    validateAAPLAKExtrasDictEntry(xrt, dict, dictName, "AAPL:AKExtras", OPTIONAL, V10, depth)

\* returns the executed trace tr and isTrapNet; err is ErrOf(tr)
validateAnnotationDict(xrt, dict, depth) ==
    IF depth > MaxDepth
    THEN [tr |-> <<Chk("NoReturn", "", "annotDict")>>, isTrapNet |-> FALSE]
    ELSE IF dict.t = "nil"
    THEN [tr |-> <<Chk("NilDict", "Type", "annotDict")>>, isTrapNet |-> FALSE]
    ELSE
    LET dictName == "annotDict"
        general == validateAnnotationDictGeneral(xrt, dict, dictName)
        subtype == Entry(xrt, dict, "Subtype")
        concrete == validateAnnotationDictConcrete(xrt, dict, subtype, depth)
        special == validateAnnotationDictSpecial(xrt, dict, dictName, depth)
    IN  CHOOSE r \in {[tr |-> p, isTrapNet |-> IsOK(p) /\ subtype.s = "TrapNet"] :
                       p \in {AndThen(AndThen(general, concrete), special)}} : TRUE

-----------------------------------------------------------------------------
(* The documents the model is run on                                       *)

Rect == NumArr(4)

D2(k1, v1, k2, v2) == With(With(NoEntries, k1, v1), k2, v2)

\* an annotation dictionary of subtype S holding the general required
\* entries only
Base(S) == D2("Subtype", PDFName(S), "Rect", Rect)

\* the entries a subtype's variant validator requires
RequiredOf(S) ==
    CASE S = "FreeText" -> With(NoEntries, "DA", PDFStringLiteral("/Helv 12 Tf"))
      [] S = "Redact" -> With(NoEntries, "DA", PDFStringLiteral("/Helv 12 Tf"))
      [] S = "Line" -> With(NoEntries, "L", NumArr(4))
      [] S \in {"Polygon", "PolyLine"} -> With(NoEntries, "Vertices", NumArr(6))
      [] S \in {"Highlight", "Underline", "Squiggly", "StrikeOut"} ->
            With(NoEntries, "QuadPoints", NumArr(8))
      [] S = "Ink" -> With(NoEntries, "InkList", PDFArray(<<NumArr(4)>>))
      [] S = "FileAttachment" -> With(NoEntries, "FS", PDFStringLiteral("a.txt"))
      [] S = "Sound" -> With(NoEntries, "Sound", PDFStreamDict(NoEntries))
      [] S = "Movie" ->
            With(NoEntries, "Movie", PDFDict(With(NoEntries, "F", PDFStringLiteral("a.mov"))))
      [] S = "PrinterMark" -> D2("F", PDFInteger(0), "AP", PDFDict(NoEntries))
      [] S = "TrapNet" -> With(NoEntries, "F", PDFInteger(0))
      [] S = "3D" -> With(NoEntries, "3DD", PDFStreamDict(NoEntries))
      [] OTHER -> NoEntries

Merge(d1, d2) ==
    [x \in (DOMAIN d1) \cup (DOMAIN d2) |-> IF x \in DOMAIN d2 THEN d2[x] ELSE d1[x]]

\* the minimally populated annotation of subtype S.  A Link carries none of
\* A and Dest here; LinkDest and LinkA add one.
Minimal(S) == Merge(Base(S), RequiredOf(S))

LinkDest == With(Minimal("Link"), "Dest", NumArr(3))
LinkA == With(Minimal("Link"), "A", PDFDict(NoEntries))

\* Indirect objects: the object number is the position in ObjNames, and
\* LibTable holds the objects in the same order.  Object number 0 is never
\* in use, a reference to it is dangling.
ObjNames == <<"Link", "TrapNet", "NoRect", "Null", "Page", "Font", "NoType", "Popup", "Text", "ReplyToTrapNet", "WidgetBadBS", "Watermark", "Integer", "CycleA", "CycleB", "PopupNoRect",
             "PageA", "PageB", "Nested", "PagesNoKids", "PagesNoCount", "PageBadAnnots",
             "PopupOwner", "PopupReply", "TextOwner", "TextReply">>

Obj(name) == CHOOSE i \in DOMAIN ObjNames : ObjNames[i] = name

IndRef(name) == PDFIndirectRef(Obj(name))

Dangling == PDFIndirectRef(0)

PageDict == With(NoEntries, "Type", PDFName("Page"))

PagesDict(kids) ==
    With(With(With(NoEntries, "Type", PDFName("Pages")),
              "Count", PDFInteger(Len(kids))), "Kids", PDFArray(kids))

LibTable == <<
    PDFDict(LinkDest),
    PDFDict(Minimal("TrapNet")),
    PDFDict(Without(Minimal("Text"), "Rect")),
    Nil,
    PDFDict(With(NoEntries, "Type", PDFName("Page"))),
    PDFDict(With(NoEntries, "Type", PDFName("Font"))),
    PDFDict(NoEntries),
    PDFDict(Minimal("Popup")),
    PDFDict(Minimal("Text")),
    PDFDict(With(Minimal("Text"), "IRT", IndRef("TrapNet"))),
    PDFDict(With(Minimal("Widget"), "BS", PDFDict(With(NoEntries, "S", PDFName("X"))))),
    PDFDict(Minimal("Watermark")),
    PDFInteger(7),
    PDFDict(With(Minimal("Text"), "IRT", IndRef("CycleB"))),
    PDFDict(With(Minimal("Text"), "IRT", IndRef("CycleA"))),
    PDFDict(Without(Minimal("Popup"), "Rect")),
    PDFDict(PageDict),
    PDFDict(With(PageDict, "Annots", PDFArray(<<IndRef("Link"), IndRef("TrapNet")>>))),
    PDFDict(PagesDict(<<PDFIndirectRef(17)>>)),
    PDFDict(Without(PagesDict(<<PDFIndirectRef(17)>>), "Kids")),
    PDFDict(Without(PagesDict(<<PDFIndirectRef(17)>>), "Count")),
    PDFDict(With(PageDict, "Annots", PDFInteger(1))),
    PDFDict(With(Minimal("Text"), "Popup", IndRef("PopupReply"))),
    PDFDict(With(Minimal("Popup"), "IRT", IndRef("PopupOwner"))),
    PDFDict(With(Minimal("Text"), "Popup", IndRef("TextReply"))),
    PDFDict(With(Minimal("Text"), "IRT", IndRef("TextOwner")))
>>

SubtypeSeq == <<"Text", "Link", "FreeText", "Line", "Polygon", "PolyLine", "Highlight",
                "Underline", "Squiggly", "StrikeOut", "Square", "Circle", "Stamp", "Caret",
                "Ink", "Popup", "FileAttachment", "Sound", "Movie", "Widget", "Screen",
                "PrinterMark", "TrapNet", "Watermark", "3D", "Redact">>

\* the minimally populated well-formed annotation of subtype S: a Link names
\* a destination
WellFormed(S) == IF S = "Link" THEN LinkDest ELSE Minimal(S)

MinimalLib == [i \in 1..Len(SubtypeSeq) |-> PDFDict(WellFormed(SubtypeSeq[i]))]

BorderStyle == PDFDict(With(NoEntries, "S", PDFName("S")))

LinkLib == <<
    PDFDict(Minimal("Link")),
    PDFDict(LinkA),
    PDFDict(With(LinkA, "Dest", NumArr(3))),
    PDFDict(With(LinkA, "Dest", BadArray(<<>>))),
    PDFDict(With(Minimal("Link"), "Dest", BadArray(<<>>))),
    PDFDict(With(Minimal("Link"), "A", BadDict(NoEntries)))
>>

UnknownLib == <<
    PDFDict(Base("Bogus")),
    PDFDict(Base("link")),
    PDFDict(Base("Annot")),
    PDFDict(With(Base("Bogus"), "T", PDFInteger(1))),
    PDFDict(With(Base("Bogus"), "QuadPoints", NumArr(6)))
>>

\* annotations carrying one entry whose floor depends on the validation mode
ModeLib == <<
    PDFDict(With(LinkDest, "BS", BorderStyle)),
    PDFDict(With(Minimal("FreeText"), "Q", PDFInteger(1))),
    PDFDict(With(Minimal("FreeText"), "RC", PDFStringLiteral("rc"))),
    PDFDict(With(Minimal("FreeText"), "CL", NumArr(4))),
    PDFDict(With(Minimal("FreeText"), "IT", PDFName("FreeTextCallout"))),
    PDFDict(With(Minimal("FreeText"), "RD", Rect)),
    PDFDict(With(Minimal("FreeText"), "BS", BorderStyle)),
    PDFDict(With(Minimal("FreeText"), "LE", PDFName("None"))),
    PDFDict(With(Minimal("Line"), "LE", NameArr(2))),
    PDFDict(With(Minimal("Line"), "IC", NumArr(3))),
    PDFDict(With(Minimal("Square"), "IC", NumArr(3))),
    PDFDict(With(Minimal("Circle"), "IC", NumArr(3))),
    PDFDict(With(Minimal("Text"), "Subj", PDFStringLiteral("re")))
>>

\* markup annotations with a Popup or an IRT entry
NestedLib == <<
    PDFDict(With(Minimal("Text"), "Popup", IndRef("Popup"))),
    PDFDict(With(Minimal("Text"), "Popup", IndRef("Text"))),
    PDFDict(With(Minimal("Text"), "Popup", IndRef("PopupNoRect"))),
    PDFDict(With(Minimal("Text"), "Popup", IndRef("NoType"))),
    PDFDict(With(Minimal("Text"), "Popup", IndRef("Null"))),
    PDFDict(With(Minimal("Text"), "Popup", Dangling)),
    PDFDict(With(Minimal("Text"), "Popup", PDFInteger(3))),
    PDFDict(With(Minimal("Text"), "Popup",
                 PDFDict(With(Minimal("Popup"), "Open", PDFInteger(1))))),
    PDFDict(With(Minimal("Highlight"), "Popup", IndRef("TrapNet"))),
    PDFDict(With(Minimal("Text"), "IRT", IndRef("TrapNet"))),
    PDFDict(With(Minimal("Text"), "IRT", IndRef("NoRect"))),
    PDFDict(With(Minimal("Text"), "IRT", IndRef("CycleA"))),
    PDFDict(With(Minimal("Text"), "IRT", PDFDict(Base("Bogus")))),
    PDFDict(With(Minimal("Highlight"), "IRT", IndRef("Text"))),
    PDFDict(With(Minimal("Redact"), "T", PDFInteger(1))),
    PDFDict(With(Minimal("Caret"), "RT", PDFName("X"))),
    PDFDict(With(Minimal("Widget"), "BS", PDFDict(With(NoEntries, "S", PDFName("X")))))
>>

\* markup annotations whose Popup target names them as IRT
CycleLib == <<
    PDFDict(With(Minimal("Text"), "Popup", IndRef("PopupReply"))),
    PDFDict(With(Minimal("Text"), "Popup", IndRef("TextReply")))
>>

\* Text annotations with State and StateModel
TextStateLib == <<
    PDFDict(With(Minimal("Text"), "State", PDFStringLiteral("None"))),
    PDFDict(With(Minimal("Text"), "State", PDFStringLiteral("Bogus"))),
    PDFDict(With(Minimal("Text"), "StateModel", PDFStringLiteral("Review"))),
    PDFDict(With(Minimal("Text"), "StateModel", PDFStringLiteral("Bogus"))),
    PDFDict(With(With(Minimal("Text"), "State", PDFStringLiteral("Unmarked")),
                 "StateModel", PDFStringLiteral("Marked"))),
    PDFDict(With(With(Minimal("Text"), "State", PDFStringLiteral("None")),
                 "StateModel", PDFStringLiteral("Bogus")))
>>

\* Widget annotations with a BS entry
WidgetLib == <<
    PDFDict(With(Minimal("Widget"), "BS", BorderStyle)),
    PDFDict(With(Minimal("Widget"), "BS", PDFInteger(1))),
    PDFDict(With(Minimal("Widget"), "BS", PDFDict(With(NoEntries, "D", NumArr(3))))),
    PDFDict(With(Minimal("Widget"), "BS", Dangling))
>>

\* Popup annotations with Parent and Open
PopupLib == <<
    PDFDict(With(Minimal("Popup"), "Open", PDFBoolean)),
    PDFDict(With(Minimal("Popup"), "Open", PDFInteger(1))),
    PDFDict(With(With(Minimal("Popup"), "Parent", IndRef("Text")), "Open", PDFInteger(1))),
    PDFDict(With(With(Minimal("Popup"), "Parent", IndRef("Null")), "Open", PDFInteger(1))),
    PDFDict(With(With(Minimal("Popup"), "Parent", IndRef("Null")), "Open", PDFBoolean)),
    PDFDict(With(With(Minimal("Popup"), "Parent", Dangling), "Open", PDFBoolean)),
    PDFDict(With(With(Minimal("Popup"), "Parent", IndRef("Integer")), "Open", PDFBoolean))
>>

FontDict == PDFDict(With(NoEntries, "Type", PDFName("Font")))

\* the arrays tried as FontFauxing
FontFauxingLib == <<
    <<IndRef("Font")>>,
    <<FontDict>>,
    <<IndRef("Font"), FontDict>>,
    <<Nil, IndRef("Font")>>,
    <<IndRef("Font"), IndRef("Null")>>,
    <<IndRef("NoType"), IndRef("Font")>>,
    <<IndRef("Font"), IndRef("Page")>>,
    <<IndRef("Font"), IndRef("Null"), PDFDict(PageDict)>>,
    <<IndRef("Page")>>,
    <<>>,
    <<Nil>>,
    <<IndRef("Null"), Nil>>,
    <<Dangling, IndRef("Font")>>,
    <<IndRef("Font"), Dangling>>,
    <<IndRef("Font"), IndRef("Integer")>>,
    <<PDFInteger(1), IndRef("Font")>>
>>

\* TrapNet annotations with a FontFauxing entry
TrapNetLib ==
    [i \in DOMAIN FontFauxingLib |->
        PDFDict(With(Minimal("TrapNet"), "FontFauxing", PDFArray(FontFauxingLib[i])))]
    \o <<PDFDict(With(Minimal("TrapNet"), "FontFauxing", PDFInteger(1)))>>

MovieF == With(NoEntries, "F", PDFStringLiteral("a.mov"))

MovieWith(key, v) == PDFDict(With(Minimal("Movie"), "Movie", PDFDict(With(MovieF, key, v))))

\* Movie annotations whose movie dictionary has an aspect entry
MovieLib == <<
    MovieWith("Aspect", NumArr(2)),
    MovieWith("Aspect", NumArr(3)),
    MovieWith("Aspect", NumArr(0)),
    MovieWith("Aspect", PDFStringLiteral("4:3")),
    MovieWith("Aspect", NameArr(2)),
    MovieWith("Ascpect", NumArr(2)),
    MovieWith("Ascpect", NumArr(3))
>>

AnnotLib ==
    MinimalLib \o LinkLib \o UnknownLib \o ModeLib \o NestedLib \o CycleLib \o TextStateLib
    \o WidgetLib \o PopupLib \o TrapNetLib \o MovieLib

\* the entries validation requires of subtype S, in the order it checks them
RequiredKeys(S) ==
    <<"Subtype", "Rect">> \o
    (IF S = "PrinterMark" THEN <<"F", "AP">>
     ELSE IF RequiredOf(S) = NoEntries THEN <<>>
     ELSE <<CHOOSE k \in DOMAIN RequiredOf(S) : TRUE>>)

KeySet(q) == {q[i] : i \in DOMAIN q}

RemovedFrom(d, R) == [x \in (DOMAIN d) \ R |-> d[x]]

\* the well-formed annotations with one or more required entries removed
RequiredRemoved ==
    UNION {{PDFDict(RemovedFrom(WellFormed(S), R)) :
                R \in (SUBSET KeySet(RequiredKeys(S))) \ {{}}} : S \in Subtypes}

\* entries only the markup overlay reads, with values it refuses
MarkupOnlyKeys == {"RT", "Popup", "IRT"}

BadMarkupValue(key) == IF key = "RT" THEN PDFName("X") ELSE IndRef("NoRect")

\* the well-formed annotations with one such entry added
MarkupOnlyBad ==
    {PDFDict(With(WellFormed(S), key, BadMarkupValue(key))) :
        S \in Subtypes, key \in MarkupOnlyKeys}

\* the well-formed markup annotations with a subject
WithSubject ==
    {PDFDict(With(WellFormed(S), "Subj", PDFStringLiteral("re"))) : S \in MarkupSubtypes}

\* the highlighting modes the Widget validator names, and a name outside
HighlightModes == {"N", "I", "O", "P", "T", "A"}

\* Link annotations with an H entry
LinkWithH ==
    {PDFDict(With(LinkDest, "H", PDFName(h))) : h \in HighlightModes \cup {"X"}}
    \cup {PDFDict(With(LinkDest, "H", PDFInteger(1)))}

\* the intents tried on Polygon and PolyLine annotations
Intents == {"PolygonCloud", "PolyLineDimension", "PolygonDimension", "LineArrow", "Bogus"}

WithIntent ==
    {PDFDict(With(Minimal(S), "IT", PDFName(it))) : S \in {"Polygon", "PolyLine"}, it \in Intents}

\* what an AAPL:AKExtras dictionary can hold
ExtrasLib == {
    NoEntries,
    With(NoEntries, "AAPL:AKAnnotationObject", PDFStringLiteral("obj")),
    With(NoEntries, "AAPL:AKAnnotationObject", PDFInteger(1)),
    With(NoEntries, "AAPL:AKPDFAnnotationDictionary", PDFDict(Minimal("Text"))),
    With(NoEntries, "AAPL:AKPDFAnnotationDictionary", PDFDict(Without(Minimal("Text"), "Rect"))),
    With(NoEntries, "AAPL:AKPDFAnnotationDictionary", PDFDict(Minimal("Bogus"))),
    With(NoEntries, "AAPL:AKPDFAnnotationDictionary", PDFInteger(1)),
    D2("AAPL:AKAnnotationObject", PDFStringLiteral("obj"),
       "AAPL:AKPDFAnnotationDictionary", PDFDict(LinkDest))
}

\* well-formed annotations with an AAPL:AKExtras entry
WithExtras ==
    {PDFDict(With(WellFormed(S), "AAPL:AKExtras", PDFDict(e))) :
        S \in {"Text", "Link", "Popup"}, e \in ExtrasLib}
    \cup {PDFDict(With(Minimal("Text"), "AAPL:AKExtras", PDFInteger(1))),
          PDFDict(With(Without(Minimal("Text"), "Rect"), "AAPL:AKExtras", PDFDict(NoEntries)))}

\* Link annotations with an A and a Dest entry
LinkBoth ==
    {PDFDict(With(With(Minimal("Link"), "A", act), "Dest", dest)) :
        act \in {PDFDict(NoEntries), BadDict(NoEntries), PDFInteger(1)},
        dest \in {NumArr(3), BadArray(<<>>), PDFInteger(1), Dangling, IndRef("Null")}}

Annotations ==
    {AnnotLib[i] : i \in DOMAIN AnnotLib} \cup RequiredRemoved \cup MarkupOnlyBad
    \cup WithSubject \cup LinkWithH \cup WithIntent \cup WithExtras \cup LinkBoth

-----------------------------------------------------------------------------
(* One annotation: validateAnnotationDict(xRefTable, annot)                *)

NotRun == [done |-> FALSE, tr |-> <<>>, isTrapNet |-> FALSE]

NoStack == <<>>

Idle == [status |-> "idle", err |-> NoErr]

InitAnnot ==
    /\ rev \in {1, 2}
    /\ \E v \in Versions, m \in Modes :
          xRefTable = [Version |-> v, ValidationMode |-> m, Table |-> LibTable]
    /\ annot \in Annotations
    /\ annotRes = NotRun
    /\ root = Nil
    /\ stack = NoStack
    /\ result = Idle
    /\ visited = <<>>

ValidateAnnot ==
    /\ ~annotRes.done
    /\ \E r \in {validateAnnotationDict(xRefTable, annot, 0)} :
          annotRes' = [done |-> TRUE, tr |-> r.tr, isTrapNet |-> r.isTrapNet]
    /\ UNCHANGED <<rev, xRefTable, annot, root, stack, result, visited>>

SpecAnnot == InitAnnot /\ [][ValidateAnnot]_vars

-----------------------------------------------------------------------------
(* The page tree walk: validatePagesAnnotations(xRefTable, root)           *)

MaxAnnots == 2

\* what an element of an Annots array can be
ElemLib == <<
    IndRef("Link"),
    IndRef("TrapNet"),
    PDFDict(Minimal("Text")),
    IndRef("NoRect"),
    IndRef("Null"),
    Dangling,
    PDFInteger(7),
    IndRef("WidgetBadBS"),
    PDFDict(With(LinkDest, "BS", BorderStyle)),
    IndRef("ReplyToTrapNet")
>>

\* the Kids of the root node
KidsLib == <<
    <<IndRef("PageA")>>,
    <<Nil, IndRef("PageA")>>,
    <<IndRef("PageA"), IndRef("PageB")>>,
    <<IndRef("Nested"), IndRef("PageB")>>,
    <<IndRef("Null"), IndRef("PageA")>>,
    <<Dangling, IndRef("PageA")>>,
    <<IndRef("Font"), IndRef("PageA")>>,
    <<IndRef("NoType"), IndRef("PageA")>>,
    <<IndRef("PagesNoKids"), IndRef("PageA")>>,
    <<IndRef("PagesNoCount"), IndRef("PageA")>>,
    <<IndRef("Integer"), IndRef("PageA")>>,
    <<IndRef("PageB"), Nil, IndRef("PageA")>>,
    <<IndRef("PageBadAnnots"), IndRef("PageA")>>
>>

RootLib ==
    [i \in DOMAIN KidsLib |-> PDFDict(PagesDict(KidsLib[i]))]
    \o << PDFDict(Without(PagesDict(KidsLib[1]), "Count")),
          PDFDict(Without(PagesDict(KidsLib[1]), "Kids")),
          PDFDict(Without(Without(PagesDict(KidsLib[1]), "Count"), "Kids")) >>

WalkVersions == {V11, V13, V15}

RECURSIVE Seqs(_)
\* the sequences over 1..Len(ElemLib) of length at most n
Seqs(n) ==
    IF n = 0 THEN {<<>>}
    ELSE Seqs(n - 1) \cup
         {Append(q, x) : q \in {r \in Seqs(n - 1) : Len(r) = n - 1},
                         x \in DOMAIN ElemLib}

Elems(q) == [j \in 1..Len(q) |-> ElemLib[q[j]]]

\* page A: no Annots entry, a null Annots entry, or an Annots array
PageA(annots, q) ==
    CASE annots = "absent" -> PDFDict(PageDict)
      [] annots = "null" -> PDFDict(With(PageDict, "Annots", IndRef("Null")))
      [] annots = "array" -> PDFDict(With(PageDict, "Annots", PDFArray(Elems(q))))

FrameSharedFlag(kind, arr) ==
    [kind |-> kind, arr |-> arr, i |-> 1, hasTrapNet |-> annotRes.isTrapNet]

\* a call of validatePagesAnnotations or validatePageAnnotations at its
\* first element; "var hasTrapNet bool" is a local of validatePageAnnotations
Frame(kind, arr) == [kind |-> kind, arr |-> arr, i |-> 1, hasTrapNet |-> FALSE]

Top == stack[Len(stack)]

\* the position the walk is at: the index in each array on the way down
Path == [j \in 1..Len(stack) |-> stack[j].i]

Running == result.status = "running" /\ stack # NoStack

Error(c) == [status |-> "error", err |-> c]

Panic == [status |-> "panic", err |-> NoErr]

\* the frame on top moves on to its next element
Advance(st) == [st EXCEPT ![Len(st)].i = @ + 1]

\* "return nil" of the call on top: its caller moves on to its next element
Return(st) ==
    IF Len(st) = 1 THEN NoStack ELSE Advance(SubSeq(st, 1, Len(st) - 1))

\* the head of validatePagesAnnotations: Count, then "range *kidsArray"
PagesHead(node) ==
    IF IntEntry(node, "Count") = Nil THEN "missing"
    ELSE IF PDFArrayEntry(node, "Kids") = Nil THEN "nilpointer"
    ELSE "range"

EnterPages(node) ==
    CASE PagesHead(node) = "missing" ->
            /\ result' = Error(Chk("Missing", "Count", "pagesDict"))
            /\ UNCHANGED stack
      [] PagesHead(node) = "nilpointer" ->
            /\ result' = Panic
            /\ UNCHANGED stack
      [] OTHER ->
            /\ stack' = Append(stack, Frame("Pages", PDFArrayEntry(node, "Kids").e))
            /\ result' = [result EXCEPT !.status = "running"]

KidKindLoose(xrt, v) ==
    LET r == DereferenceDict(xrt, v)
    IN  IF r.err THEN "Deref"
        ELSE IF r.o.t = "nil" THEN "Nil"
        ELSE IF DictType(r.o) # Nil /\ DictType(r.o).s = "Pages" THEN "Pages"
        ELSE "Page"

\* what the loop body of validatePagesAnnotations does with the kid v
KidKind(xrt, v) ==
    LET r == DereferenceDict(xrt, v)
    IN  IF r.err THEN "Deref"
        ELSE IF r.o.t = "nil" THEN "Nil"
        ELSE IF DictType(r.o) = Nil THEN "NoType"
        ELSE IF DictType(r.o).s = "Pages" THEN "Pages"
        ELSE IF DictType(r.o).s = "Page" THEN "Page"
        ELSE "OtherType"

AnnotElemUnchecked(xrt, v) ==
    IF v.t = "ref" THEN [c |-> NoErr, d |-> DereferenceDict(xrt, v).o]
    ELSE IF v.t # "dict"
    THEN [c |-> Chk("Corrupt", "array of indrefs", "pageDict"), d |-> Nil]
    ELSE [c |-> NoErr, d |-> v]

AnnotElemRefsOnly(xrt, v) ==
    LET r == DereferenceDict(xrt, v)
    IN  IF v.t # "ref" \/ r.err \/ r.o.t = "nil"
        THEN [c |-> Chk("Corrupt", "annotation dict", "pageDict"), d |-> Nil]
        ELSE [c |-> NoErr, d |-> r.o]

\* what the loop body of validatePageAnnotations resolves the element v to
AnnotElem(xrt, v) ==
    IF v.t = "ref"
    THEN LET r == DereferenceDict(xrt, v)
         IN  IF r.err \/ r.o.t = "nil"
             THEN [c |-> Chk("Corrupt", "annotation dict", "pageDict"), d |-> Nil]
             ELSE [c |-> NoErr, d |-> r.o]
    ELSE IF v.t # "dict"
    THEN [c |-> Chk("Corrupt", "array of indrefs", "pageDict"), d |-> Nil]
    ELSE [c |-> NoErr, d |-> v]

KeepTrapNet(st, isTrapNet) == Advance(st)

\* the annotation the element st[Len(st)] is at replies to a TrapNet
RepliesToTrapNet(st) ==
    \E d \in {AnnotElem(xRefTable, st[Len(st)].arr[st[Len(st)].i]).d} :
        /\ d.t = "dict" /\ Entry(xRefTable, d, "IRT").t = "dict"
        /\ Entry(xRefTable, Entry(xRefTable, d, "IRT"), "Subtype").s = "TrapNet"

SetTrapNetNested(st, isTrapNet) ==
    [Advance(st) EXCEPT ![Len(st)].hasTrapNet = isTrapNet \/ RepliesToTrapNet(st)]

\* "hasTrapNet, err = ..." with err = nil, then the next element
SetTrapNet(st, isTrapNet) == [Advance(st) EXCEPT ![Len(st)].hasTrapNet = isTrapNet]

Init ==
    /\ rev \in {1, 2}
    /\ \E v \in WalkVersions, m \in Modes, q \in Seqs(MaxAnnots),
          annots \in {"absent", "null", "array"} :
          /\ annots # "array" => q = <<>>
          /\ xRefTable = [Version |-> v, ValidationMode |-> m,
                          Table |-> [LibTable EXCEPT ![Obj("PageA")] = PageA(annots, q)]]
    /\ \E i \in DOMAIN RootLib : root = RootLib[i]
    /\ annot = Nil
    /\ annotRes = NotRun
    /\ stack = NoStack
    /\ result = Idle
    /\ visited = <<>>

\* the call validatePagesAnnotations(xRefTable, root)
Start ==
    /\ result.status = "idle"
    /\ root.t = "dict"
    /\ EnterPages(root)
    /\ UNCHANGED <<rev, xRefTable, annot, annotRes, root, visited>>

\* "if v == nil { continue }"
SkipNilKid ==
    /\ Running /\ Top.kind = "Pages" /\ Top.i <= Len(Top.arr)
    /\ Top.arr[Top.i] = Nil
    /\ stack' = Advance(stack)
    /\ UNCHANGED <<rev, xRefTable, annot, annotRes, root, result, visited>>

\* the kid does not resolve to a page tree node
KidError ==
    /\ Running /\ Top.kind = "Pages" /\ Top.i <= Len(Top.arr)
    /\ Top.arr[Top.i] # Nil
    /\ KidKind(xRefTable, Top.arr[Top.i]) \notin {"Pages", "Page"}
    /\ result' = Error(Chk(KidKind(xRefTable, Top.arr[Top.i]), "Kids", "pagesDict"))
    /\ visited' = Append(visited, Path)
    /\ UNCHANGED <<rev, xRefTable, annot, annotRes, root, stack>>

\* case "Pages": the recursive call
KidPages ==
    /\ Running /\ Top.kind = "Pages" /\ Top.i <= Len(Top.arr)
    /\ Top.arr[Top.i] # Nil
    /\ KidKind(xRefTable, Top.arr[Top.i]) = "Pages"
    /\ EnterPages(DereferenceDict(xRefTable, Top.arr[Top.i]).o)
    /\ visited' = Append(visited, Path)
    /\ UNCHANGED <<rev, xRefTable, annot, annotRes, root>>

\* case "Page": the head of validatePageAnnotations
KidPage ==
    /\ Running /\ Top.kind = "Pages" /\ Top.i <= Len(Top.arr)
    /\ Top.arr[Top.i] # Nil
    /\ KidKind(xRefTable, Top.arr[Top.i]) = "Page"
    /\ LET d == DereferenceDict(xRefTable, Top.arr[Top.i]).o
           c == validateTypedEntry(xRefTable, d, "pageDict", "Annots", OPTIONAL, V10,
                                   "Array", TRUE)
           arr == Entry(xRefTable, d, "Annots")
       IN  IF Failed(c)
           THEN result' = Error(c) /\ UNCHANGED stack
           ELSE IF arr = Nil
           THEN stack' = Advance(stack) /\ UNCHANGED result
           ELSE stack' = Append(stack, Frame("Page", arr.e)) /\ UNCHANGED result
    /\ visited' = Append(visited, Path)
    /\ UNCHANGED <<rev, xRefTable, annot, annotRes, root>>

\* the loop over the kids is through: "return nil"
ReturnPages ==
    /\ Running /\ Top.kind = "Pages" /\ Top.i > Len(Top.arr)
    /\ stack' = Return(stack)
    /\ result' = IF Len(stack) = 1 THEN [result EXCEPT !.status = "ok"] ELSE result
    /\ UNCHANGED <<rev, xRefTable, annot, annotRes, root, visited>>

\* "if hasTrapNet { return errors.New(...) }"
AnnotAfterTrapNet ==
    /\ Running /\ Top.kind = "Page" /\ Top.i <= Len(Top.arr)
    /\ Top.hasTrapNet
    /\ result' = Error(Chk("Ordering", "Annots", "pageDict"))
    /\ UNCHANGED <<rev, xRefTable, annot, annotRes, root, stack, visited>>

\* the element is neither a dictionary nor a reference to one
AnnotCorrupt ==
    /\ Running /\ Top.kind = "Page" /\ Top.i <= Len(Top.arr)
    /\ ~Top.hasTrapNet
    /\ Failed(AnnotElem(xRefTable, Top.arr[Top.i]).c)
    /\ result' = Error(AnnotElem(xRefTable, Top.arr[Top.i]).c)
    /\ visited' = Append(visited, Path)
    /\ UNCHANGED <<rev, xRefTable, annot, annotRes, root, stack>>

\* "hasTrapNet, err = validateAnnotationDict(xRefTable, &annotsDict)"
AnnotValidate ==
    /\ Running /\ Top.kind = "Page" /\ Top.i <= Len(Top.arr)
    /\ ~Top.hasTrapNet
    /\ ~Failed(AnnotElem(xRefTable, Top.arr[Top.i]).c)
    /\ \E d \in {AnnotElem(xRefTable, Top.arr[Top.i]).d} :
       \E r \in {validateAnnotationDict(xRefTable, d, 0)} :
           /\ annot' = d
           /\ annotRes' = [done |-> TRUE, tr |-> r.tr, isTrapNet |-> r.isTrapNet]
           /\ IF IsOK(r.tr)
              THEN /\ stack' = SetTrapNet(stack, r.isTrapNet)
                   /\ UNCHANGED result
              ELSE /\ result' = Error(ErrOf(r.tr))
                   /\ UNCHANGED stack
    /\ visited' = Append(visited, Path)
    /\ UNCHANGED <<rev, xRefTable, root>>

\* the loop over the annotations is through: "return nil"
ReturnPage ==
    /\ Running /\ Top.kind = "Page" /\ Top.i > Len(Top.arr)
    /\ stack' = Return(stack)
    /\ UNCHANGED <<rev, xRefTable, annot, annotRes, root, result, visited>>

Next ==
    \/ Start
    \/ SkipNilKid
    \/ KidError
    \/ KidPages
    \/ KidPage
    \/ ReturnPages
    \/ AnnotAfterTrapNet
    \/ AnnotCorrupt
    \/ AnnotValidate
    \/ ReturnPage

Spec == Init /\ [][Next]_vars

-----------------------------------------------------------------------------
(* Properties                                                              *)

\* what the document holds at v, whatever the walk makes of it
Resolve(v) ==
    IF v.t # "ref" THEN v
    ELSE IF v.n \in DOMAIN xRefTable.Table THEN xRefTable.Table[v.n]
    ELSE Nil

NameOf(o, key) ==
    IF o.t = "dict" /\ Has(o, key) /\ o.d[key].t = "name" THEN o.d[key].s ELSE ""

ValidAnnot(v) ==
    /\ Resolve(v).t = "dict"
    /\ IsOK(validateAnnotationDict(xRefTable, Resolve(v), 0).tr)

IsTrapNet(v) == NameOf(Resolve(v), "Subtype") = "TrapNet"

\* arr[j] is a valid TrapNet, it is not the last element, and all elements
\* before it are valid annotations other than TrapNet
TrapNetNotLast(arr, j) ==
    /\ j \in 1..(Len(arr) - 1)
    /\ ValidAnnot(arr[j]) /\ IsTrapNet(arr[j])
    /\ \A k \in 1..(j - 1) : ValidAnnot(arr[k]) /\ ~IsTrapNet(arr[k])

InPage == stack # NoStack /\ Top.kind = "Page"

\* C1: when a valid TrapNet annotation preceded by valid non-TrapNet
\* annotations is not the last element of the Annots array, the page fails
\* with the ordering violation at the element that follows it, whatever
\* that element is, and that element is neither resolved nor validated
C1_TrapNetMustBeLast ==
    InPage =>
        \A j \in 1..Len(Top.arr) :
            TrapNetNotLast(Top.arr, j) =>
                /\ Top.i <= j + 1
                /\ result.status \in {"running", "error"}
                /\ result.status = "error" =>
                        Top.i = j + 1 /\ result.err.e = "Ordering"
                /\ \A n \in DOMAIN visited :
                        visited[n] # [Path EXCEPT ![Len(stack)] = j + 1]

\* the ordering violation is raised at an element that is neither a
\* dictionary nor an indirect reference
C1_Witness ==
    /\ InPage /\ result.status = "error" /\ result.err.e = "Ordering"
    /\ Top.i > 1 /\ TrapNetNotLast(Top.arr, Top.i - 1)
    /\ Top.arr[Top.i].t = "int"

GoodAnnots(arr) ==
    \A j \in DOMAIN arr : ValidAnnot(arr[j]) /\ (IsTrapNet(arr[j]) => j = Len(arr))

GoodPage(v) ==
    /\ NameOf(Resolve(v), "Type") = "Page"
    /\ \/ ~Has(Resolve(v), "Annots")
       \/ Resolve(Resolve(v).d["Annots"]).t = "nil"
       \/ /\ Resolve(Resolve(v).d["Annots"]).t = "array"
          /\ GoodAnnots(Resolve(Resolve(v).d["Annots"]).e)

\* a root whose kids are all pages that have no Annots or a good Annots
FlatGoodRoot ==
    /\ IntEntry(root, "Count") # Nil
    /\ PDFArrayEntry(root, "Kids") # Nil
    /\ \A k \in DOMAIN root.d["Kids"].e :
          root.d["Kids"].e[k] = Nil \/ GoodPage(root.d["Kids"].e[k])

\* C2: an Annots array of valid annotations in which a TrapNet occurs only
\* as the last element raises no error, and neither does a page without
\* Annots: a tree of such pages validates
C2_TrapNetLastSucceeds ==
    /\ (InPage /\ GoodAnnots(Top.arr)) => result.status = "running"
    /\ FlatGoodRoot => result.status \in {"idle", "running", "ok"}

\* the walk has succeeded on a tree whose last annotation is a TrapNet
C2_Witness ==
    /\ result.status = "ok" /\ FlatGoodRoot
    /\ annotRes.done /\ annotRes.isTrapNet
    /\ Len(visited) >= 3

\* C3: fail-fast: a check that fails is the last check that is made, and
\* the walk returns exactly its error
C3_FailFast ==
    annotRes.done =>
        \A i \in 1..Len(annotRes.tr) :
            annotRes.tr[i].e # "" =>
                /\ i = Len(annotRes.tr)
                /\ result.status = "error"
                /\ result.err.e = annotRes.tr[i].e
                /\ result.err.k = annotRes.tr[i].k

Done == annotRes.done

Sub == NameOf(annot, "Subtype")

GeneralOK == IsOK(validateAnnotationDictGeneral(xRefTable, annot, "annotDict"))

Flat == ~Has(annot, "Popup") /\ ~Has(annot, "IRT") /\ ~Has(annot, "AAPL:AKExtras")

ChecksOf(tr) == {tr[i] : i \in DOMAIN tr}

\* C4: with valid general fields, a Subtype that is no key of the table
\* fails with the unknown-subtype error naming it, right after the general
\* checks (no markup and no variant check is made); a Subtype that is a key
\* has the checks of its own table entry made and of no other entry
C4_UnknownSubtype ==
    (Done /\ GeneralOK /\ Sub # "") =>
        IF Sub \notin Subtypes
        THEN /\ ErrOf(annotRes.tr).e = "UnknownSubtype"
             /\ ErrOf(annotRes.tr).k = Sub
             /\ \A c \in ChecksOf(annotRes.tr) :
                    c.dn = "annotDict" /\ (c.e = "" \/ c = ErrOf(annotRes.tr))
        ELSE Flat =>
             /\ \A c \in ChecksOf(annotRes.tr) : c.dn \in Subtypes => c.dn = Sub
             /\ (\E c \in ChecksOf(annotRes.tr) : c.dn = "markupAnnot") => SubtypeMarkup(Sub)
             /\ ErrOf(annotRes.tr).e # "UnknownSubtype"

\* an unknown subtype whose markup field T is ill-typed
C4_Witness ==
    /\ Done /\ GeneralOK /\ Sub = "Bogus" /\ Has(annot, "T")
    /\ ErrOf(annotRes.tr).e = "UnknownSubtype"

IsMinimal == \E i \in DOMAIN MinimalLib : annot = MinimalLib[i]

\* C5: the minimal well-formed annotation of a subtype validates from the
\* version of its table entry on, and fails with a version error below it
C5_MinimalAtVersion ==
    (Done /\ IsMinimal) =>
        IF xRefTable.Version >= SubtypeSince(Sub)
        THEN IsOK(annotRes.tr)
        ELSE ErrOf(annotRes.tr).e = "Version"

\* C6: a Link without A and without Dest, valid up to there, fails with a
\* missing-required error
C6_LinkNeedsTarget ==
    (Done /\ GeneralOK /\ Sub = "Link" /\ ~Has(annot, "A") /\ ~Has(annot, "Dest")) =>
        ErrOf(annotRes.tr).e = "Missing"

FloorsOrdered ==
    /\ LinkBSSince(ValidationRelaxed) <= LinkBSSince(ValidationStrict)
    /\ FreeTextQSince(ValidationRelaxed) <= FreeTextQSince(ValidationStrict)
    /\ FreeTextRCSince(ValidationRelaxed) <= FreeTextRCSince(ValidationStrict)
    /\ FreeTextCLSince(ValidationRelaxed) <= FreeTextCLSince(ValidationStrict)
    /\ FreeTextITSince(ValidationRelaxed) <= FreeTextITSince(ValidationStrict)
    /\ FreeTextRDSince(ValidationRelaxed) <= FreeTextRDSince(ValidationStrict)
    /\ FreeTextBSSince(ValidationRelaxed) <= FreeTextBSSince(ValidationStrict)
    /\ FreeTextLESince(ValidationRelaxed) <= FreeTextLESince(ValidationStrict)
    /\ LineLESince(ValidationRelaxed) <= LineLESince(ValidationStrict)
    /\ CircleOrSquareICSince(ValidationRelaxed) <= CircleOrSquareICSince(ValidationStrict)
    /\ MarkupSubjSince(ValidationRelaxed) <= MarkupSubjSince(ValidationStrict)

InMode(mode) ==
    validateAnnotationDict([xRefTable EXCEPT !.ValidationMode = mode], annot, 0).tr

\* C7: the floor of a mode-dependent field is never higher in relaxed mode
\* than in strict mode: an annotation that passes in strict mode passes in
\* relaxed mode, and a version error of relaxed mode is one of strict mode
C7_RelaxedNeverRaises ==
    /\ FloorsOrdered
    /\ Done =>
        /\ IsOK(InMode(ValidationStrict)) => IsOK(InMode(ValidationRelaxed))
        /\ ErrOf(InMode(ValidationRelaxed)).e = "Version" =>
                ErrOf(InMode(ValidationStrict)) = ErrOf(InMode(ValidationRelaxed))

\* a Link with a border style passes in relaxed mode at a version that
\* strict mode rejects
C7_Witness ==
    /\ Done /\ Sub = "Link" /\ Has(annot, "BS")
    /\ xRefTable.ValidationMode = ValidationRelaxed
    /\ IsOK(annotRes.tr)
    /\ ErrOf(InMode(ValidationStrict)).e = "Version"

PopupTarget == IF Has(annot, "Popup") THEN Resolve(annot.d["Popup"]) ELSE Nil

\* the Popup entry was read without error and holds a dictionary
PopupReached ==
    /\ PopupTarget.t = "dict"
    /\ \E c \in ChecksOf(annotRes.tr) : c.k = "Popup" /\ c.dn = "markupAnnot" /\ c.e = ""

\* C8: a Popup entry that resolves to a dictionary whose Subtype is not
\* Popup fails the outer annotation with a constraint violation on that
\* Subtype; when it is Popup, the target is validated as an annotation and
\* an error of that validation is the error of the outer annotation
C8_PopupEntry ==
    (Done /\ PopupReached /\ NameOf(PopupTarget, "Subtype") # "") =>
        IF NameOf(PopupTarget, "Subtype") # "Popup"
        THEN ErrOf(annotRes.tr) = Chk("Constraint", "Subtype", "markupAnnot")
        ELSE ~ValidAnnot(PopupTarget) =>
                ErrOf(annotRes.tr) = ErrOf(validateAnnotationDict(xRefTable, PopupTarget, 0).tr)

\* the Popup entry of a Text annotation refers to a Text annotation
C8_Witness ==
    /\ Done /\ PopupReached /\ NameOf(PopupTarget, "Subtype") = "Text"
    /\ ErrOf(annotRes.tr).e = "Constraint"

AtKid == Running /\ Top.kind = "Pages" /\ Top.i <= Len(Top.arr)

Kid == Top.arr[Top.i]

Undereferenceable(v) ==
    \/ v.t = "ref" /\ v.n \notin DOMAIN xRefTable.Table
    \/ Resolve(v).t \notin {"nil", "dict"}

KidDispatch ==
    AtKid =>
        IF Kid = Nil
            THEN stack' = Advance(stack) /\ result' = result /\ visited' = visited
        ELSE IF Undereferenceable(Kid)
            THEN result'.status = "error" /\ result'.err.e = "Deref" /\ stack' = stack
        ELSE IF Resolve(Kid).t = "nil"
            THEN result'.status = "error" /\ result'.err.e = "Nil" /\ stack' = stack
        ELSE IF NameOf(Resolve(Kid), "Type") = "Pages"
            THEN /\ visited' = Append(visited, Path)
                 /\ (Has(Resolve(Kid), "Count") /\ Has(Resolve(Kid), "Kids")) =>
                        /\ stack' = Append(stack, Frame("Pages", Resolve(Kid).d["Kids"].e))
                        /\ result' = result
        ELSE IF NameOf(Resolve(Kid), "Type") = "Page"
            THEN /\ visited' = Append(visited, Path)
                 /\ GoodPage(Kid) =>
                        /\ result' = result
                        /\ IF Has(Resolve(Kid), "Annots")
                              /\ Resolve(Resolve(Kid).d["Annots"]).t = "array"
                           THEN stack' = Append(stack,
                                    Frame("Page", Resolve(Resolve(Kid).d["Annots"]).e))
                           ELSE stack' = Advance(stack)
        ELSE /\ result'.status = "error"
             /\ result'.err.e \in {"NoType", "OtherType"}
             /\ stack' = stack

\* C9: a nil kid is skipped and the walk goes on with the next kid; any
\* other kid is dereferenced: a dereference error or a null object is an
\* error, a Pages node is entered, the Annots of a Page are validated, and
\* a node of another type or without a type is an error
C9_KidDispatch == [][KidDispatch]_vars

\* the walk has succeeded on a tree whose first kid is nil
C9_Witness ==
    /\ result.status = "ok"
    /\ root.d["Kids"].e[1] = Nil
    /\ Len(visited) > 0

LacksCountOrKids(node) ==
    node.t = "dict" /\ (~Has(node, "Count") \/ ~Has(node, "Kids"))

\* C10: a Pages node without Count or without Kids makes the walk return an
\* error: it does not succeed and it does not crash
C10_CountAndKids ==
    /\ (result.status # "idle" /\ LacksCountOrKids(root)) => result.status = "error"
    /\ (/\ result.status \in {"error", "panic"}
        /\ stack # NoStack /\ Top.kind = "Pages" /\ Top.i <= Len(Top.arr)
        /\ NameOf(Resolve(Kid), "Type") = "Pages"
        /\ LacksCountOrKids(Resolve(Kid)))
       => result.status = "error"

AtAnnot == Running /\ Top.kind = "Page" /\ Top.i <= Len(Top.arr) /\ ~Top.hasTrapNet

Elem == Top.arr[Top.i]

AnnotResolution ==
    AtAnnot =>
        IF Elem.t \in {"dict", "ref"} /\ Resolve(Elem).t = "dict"
        THEN \E r \in {validateAnnotationDict(xRefTable, Resolve(Elem), 0)} :
                /\ annot' = Resolve(Elem)
                /\ annotRes'.done /\ annotRes'.tr = r.tr
                /\ IF IsOK(r.tr)
                   THEN result' = result /\ Len(stack') = Len(stack)
                        /\ stack'[Len(stack)].i = Top.i + 1
                   ELSE result'.status = "error" /\ result'.err = ErrOf(r.tr)
                        /\ stack' = stack
        ELSE /\ result'.status = "error" /\ result'.err.e = "Corrupt"
             /\ annotRes' = annotRes /\ stack' = stack

\* C11: an element of Annots that is reached is resolved to a dictionary,
\* inline or through its reference, and that dictionary is validated, the
\* same way in both cases; an element that is neither, a reference that
\* does not dereference to a dictionary and a reference to null fail the
\* page with a corruption error
C11_AnnotResolution == [][AnnotResolution]_vars

\* a reference to the null object fails the page after an inline
\* dictionary was validated
C11_Witness ==
    /\ InPage /\ result.status = "error" /\ result.err.e = "Corrupt"
    /\ Top.i = 2 /\ Top.arr[1].t = "dict" /\ Top.arr[2] = IndRef("Null")
    /\ annotRes.done /\ IsOK(annotRes.tr)

\* the first entry of the sequence q that is in the set R
FirstOf(q, R) == q[CHOOSE i \in DOMAIN q : q[i] \in R /\ \A j \in 1..(i - 1) : q[j] \notin R]

\* the annotation is the well-formed annotation of subtype S without the
\* required entries R, and the well-formed one validates in this document
Removed(S, R) ==
    /\ annotRes.done
    /\ annot = PDFDict(RemovedFrom(WellFormed(S), R))
    /\ IsOK(validateAnnotationDict(xRefTable, PDFDict(WellFormed(S)), 0).tr)

\* C12: an otherwise valid annotation of subtype S that lacks required
\* entries (Subtype, Rect, the entries the variant of S requires) fails with
\* the missing-entry error of the one among them that is checked first
C12_MissingRequired ==
    \A S \in Subtypes : \A R \in (SUBSET KeySet(RequiredKeys(S))) \ {{}} :
        Removed(S, R) =>
            /\ ErrOf(annotRes.tr).e = "Missing"
            /\ ErrOf(annotRes.tr).k = FirstOf(RequiredKeys(S), R)
            /\ \A i \in 1..(Len(annotRes.tr) - 1) : annotRes.tr[i].e # "Missing"

\* a PrinterMark without F and AP fails on F
C12_Witness ==
    /\ Removed("PrinterMark", {"F", "AP"})
    /\ ErrOf(annotRes.tr).e = "Missing" /\ ErrOf(annotRes.tr).k = "F"

IRTTarget(d) == IF d.t = "dict" /\ Has(d, "IRT") THEN Resolve(d.d["IRT"]) ELSE Nil

\* the annotation is a markup annotation whose Popup entry was accepted as a
\* dictionary, and that dictionary names the annotation as its IRT
PopupIRTCycle ==
    /\ annotRes.done /\ NameOf(annot, "Subtype") \in MarkupSubtypes
    /\ PopupReached
    /\ IRTTarget(PopupTarget) = annot

\* the annotation's IRT entry was accepted as a dictionary, and following
\* IRT from that dictionary leads back to it
IRTCycle ==
    /\ annotRes.done /\ NameOf(annot, "Subtype") \in MarkupSubtypes
    /\ \E c \in ChecksOf(annotRes.tr) : c.k = "IRT" /\ c.dn = "markupAnnot" /\ c.e = ""
    /\ IRTTarget(annot).t = "dict"
    /\ IRTTarget(IRTTarget(IRTTarget(annot))) = IRTTarget(annot)

BelowFloorBadMarkup ==
    /\ annotRes.done /\ GeneralOK
    /\ Sub \in MarkupSubtypes /\ xRefTable.Version < SubtypeSince(Sub)
    /\ ~IsOK(validateMarkupAnnotation(xRefTable, annot, 0))

\* C14 as stated: below the subtype's floor an invalid markup entry is
\* reported, not the version of the subtype
C14_MarkupBeforeVersion ==
    BelowFloorBadMarkup =>
        ErrOf(annotRes.tr) = ErrOf(validateMarkupAnnotation(xRefTable, annot, 0))

\* C14 amended: package pdfcpu enforces the floor of the subtype before it
\* runs the markup overlay and reports the version of the subtype; package
\* validate runs the markup overlay first and reports the markup entry
C14_VersionOrMarkupFirst ==
    BelowFloorBadMarkup =>
        IF rev = 1
        THEN /\ ErrOf(annotRes.tr).e = "Version" /\ ErrOf(annotRes.tr).k = Sub
             /\ \A c \in ChecksOf(annotRes.tr) : c.dn # "markupAnnot"
        ELSE /\ ErrOf(annotRes.tr) = ErrOf(validateMarkupAnnotation(xRefTable, annot, 0))
             /\ \E c \in ChecksOf(annotRes.tr) : c.dn = "markupAnnot"

\* package pdfcpu, version 1.6: a Redact annotation with an integer T fails
\* on the version of Redact
C14_Witness ==
    /\ BelowFloorBadMarkup /\ rev = 1 /\ Sub = "Redact" /\ xRefTable.Version = V16
    /\ Has(annot, "T") /\ annot.d["T"].t = "int"
    /\ ErrOf(annotRes.tr).e = "Version" /\ ErrOf(annotRes.tr).k = "Redact"

\* the markup overlay of the annotation accepted its IRT entry as a
\* dictionary
IRTReached ==
    /\ annotRes.done /\ Sub \in MarkupSubtypes
    /\ IRTTarget(annot).t = "dict"
    /\ \E c \in ChecksOf(annotRes.tr) : c.k = "IRT" /\ c.dn = "markupAnnot" /\ c.e = ""

\* the position of the annotation's own IRT check
IRTAt == CHOOSE i \in DOMAIN annotRes.tr :
            /\ annotRes.tr[i].k = "IRT"
            /\ \A j \in 1..(i - 1) : annotRes.tr[j].k # "IRT"

\* C15: the dictionary an IRT entry resolves to is validated as an
\* annotation of its own (general entries, variant of its subtype, special
\* entry) whatever its subtype, right after the IRT entry was accepted; an
\* error found in it is the error of the outer annotation, which is valid
\* only if the dictionary is
C15_IRTTarget ==
    IRTReached =>
        \E r \in {validateAnnotationDict(xRefTable, IRTTarget(annot), 1).tr} :
            /\ IRTAt + Len(r) <= Len(annotRes.tr)
            /\ SubSeq(annotRes.tr, IRTAt + 1, IRTAt + Len(r)) = r
            /\ ~IsOK(r) => ErrOf(annotRes.tr) = ErrOf(r)
            /\ IsOK(annotRes.tr) => IsOK(r)

\* a Text annotation in reply to a TrapNet annotation validates
C15_Witness ==
    /\ IRTReached /\ NameOf(IRTTarget(annot), "Subtype") = "TrapNet"
    /\ IsOK(annotRes.tr)
    /\ \E c \in ChecksOf(annotRes.tr) : c.dn = "TrapNet"

\* the annotation is the well-formed annotation of subtype S with a bad
\* markup-only entry added, and the well-formed one validates in this
\* document
WithBadMarkup(S, key) ==
    /\ annotRes.done
    /\ annot = PDFDict(With(WellFormed(S), key, BadMarkupValue(key)))
    /\ IsOK(validateAnnotationDict(xRefTable, PDFDict(WellFormed(S)), 0).tr)

MarkupChecked == \E c \in ChecksOf(annotRes.tr) : c.dn = "markupAnnot"

\* C16: the markup overlay is run for the subtypes flagged markup and for no
\* other: an otherwise valid annotation with an invalid RT, or with a Popup
\* or IRT entry that leads to an invalid annotation, validates if its
\* subtype is not flagged markup and fails on that entry if it is
C16_MarkupOnlyForMarkup ==
    \A S \in Subtypes : \A key \in MarkupOnlyKeys :
        WithBadMarkup(S, key) =>
            IF S \in NonMarkupSubtypes
            THEN IsOK(annotRes.tr) /\ ~MarkupChecked
            ELSE /\ ~IsOK(annotRes.tr) /\ MarkupChecked
                 /\ \/ ErrOf(annotRes.tr).k = key
                    \/ key # "RT" /\ ErrOf(annotRes.tr).e \in {"Missing", "Constraint"}

\* a TrapNet annotation with an IRT entry that leads to an annotation
\* without Rect validates
C16_Witness ==
    /\ WithBadMarkup("TrapNet", "IRT") /\ IsOK(annotRes.tr)
    /\ Resolve(annot.d["IRT"]).t = "dict" /\ ~Has(Resolve(annot.d["IRT"]), "Rect")

\* the annotation is the minimal Text annotation with at most State and
\* StateModel added
TextWithState ==
    /\ annotRes.done
    /\ annot.t = "dict" /\ RemovedFrom(annot.d, {"State", "StateModel"}) = Minimal("Text")

StringOf(key) == IF Has(annot, key) /\ annot.d[key].t = "string" THEN annot.d[key].s ELSE ""

ValidState == Has(annot, "State") /\ StringOf("State") \in {"None", "Unmarked"}

ValidStateModel == Has(annot, "StateModel") /\ StringOf("StateModel") \in {"Marked", "Review"}

\* C17 as stated: a Text annotation with a valid State (one the document's
\* version allows) and no StateModel fails on the missing StateModel, one
\* with neither validates, and one with a StateModel of Marked or Review and
\* no State validates
C17_StateModel ==
    TextWithState =>
        /\ ValidState /\ xRefTable.Version >= V15 /\ ~Has(annot, "StateModel") =>
              ErrOf(annotRes.tr).e = "Missing" /\ ErrOf(annotRes.tr).k = "StateModel"
        /\ ~Has(annot, "State") /\ ~Has(annot, "StateModel") => IsOK(annotRes.tr)
        /\ ~Has(annot, "State") /\ ValidStateModel => IsOK(annotRes.tr)

\* C17 amended: State and StateModel both have the floor 1.5.  From 1.5 on
\* StateModel is required exactly when State is present; below 1.5 either
\* entry fails the annotation with a version error
C17_StateModelSince15 ==
    TextWithState =>
        /\ ~Has(annot, "State") /\ ~Has(annot, "StateModel") => IsOK(annotRes.tr)
        /\ xRefTable.Version >= V15 =>
              /\ ValidState /\ ~Has(annot, "StateModel") =>
                    ErrOf(annotRes.tr).e = "Missing" /\ ErrOf(annotRes.tr).k = "StateModel"
              /\ ValidState /\ ValidStateModel => IsOK(annotRes.tr)
              /\ ~Has(annot, "State") /\ Has(annot, "StateModel") =>
                    IF ValidStateModel THEN IsOK(annotRes.tr)
                    ELSE ErrOf(annotRes.tr).e = "Constraint" /\ ErrOf(annotRes.tr).k = "StateModel"
        /\ xRefTable.Version < V15 =>
              /\ Has(annot, "State") =>
                    ErrOf(annotRes.tr).e = "Version" /\ ErrOf(annotRes.tr).k = "State"
              /\ ~Has(annot, "State") /\ Has(annot, "StateModel") =>
                    ErrOf(annotRes.tr).e = "Version" /\ ErrOf(annotRes.tr).k = "StateModel"

\* version 1.5: a Text annotation with State None and no StateModel fails on
\* the missing StateModel
C17_Witness ==
    /\ TextWithState /\ ValidState /\ ~Has(annot, "StateModel")
    /\ xRefTable.Version = V15
    /\ ErrOf(annotRes.tr).e = "Missing" /\ ErrOf(annotRes.tr).k = "StateModel"

\* the annotation is a Widget whose BS entry the border style validator
\* refuses in this document
WidgetBadBS ==
    /\ annotRes.done /\ Sub = "Widget" /\ Has(annot, "BS")
    /\ ~IsOK(validateBorderStyleDict(xRefTable, annot, "Widget", "BS", OPTIONAL, V12))

\* C18: a Widget annotation whose BS entry is not a dictionary, is present
\* below version 1.2 or breaks the border style grammar fails validation
C18_WidgetBS == WidgetBadBS => ~IsOK(annotRes.tr)

\* the annotation is the minimal Popup annotation with at most Parent and
\* Open added, in a document that allows Popup annotations
PopupWithParent ==
    /\ annotRes.done
    /\ annot.t = "dict" /\ RemovedFrom(annot.d, {"Parent", "Open"}) = Minimal("Popup")
    /\ xRefTable.Version >= SubtypeSince("Popup")

ParentFails ==
    /\ Has(annot, "Parent") /\ annot.d["Parent"].t = "ref"
    /\ DereferenceDict(xRefTable, annot.d["Parent"]).err

\* C19: a Popup annotation whose Parent reference cannot be dereferenced
\* fails, and so does one with an Open entry that is not a Boolean, whether
\* Parent is absent, resolves to a dictionary or resolves to null
C19_PopupOpen ==
    PopupWithParent =>
        /\ ParentFails => ~IsOK(annotRes.tr)
        /\ Has(annot, "Open") /\ annot.d["Open"].t # "bool" => ~IsOK(annotRes.tr)

\* the element is the null object or a reference to it
ElemNull(v) ==
    \/ v.t = "nil"
    \/ v.t = "ref" /\ v.n \in DOMAIN xRefTable.Table /\ xRefTable.Table[v.n].t = "nil"

\* the element is, or refers to, a dictionary of Type Font
ElemFont(v) == Resolve(v).t = "dict" /\ NameOf(Resolve(v), "Type") = "Font"

\* every element is null or a Font dictionary, and one is a Font dictionary
AllFonts(e) ==
    /\ \A i \in DOMAIN e : ElemNull(e[i]) \/ ElemFont(e[i])
    /\ \E i \in DOMAIN e : ElemFont(e[i])

\* the annotation is the minimal TrapNet annotation with an array as
\* FontFauxing, in a document that allows TrapNet annotations
TrapNetWithFonts ==
    /\ annotRes.done
    /\ annot.t = "dict" /\ RemovedFrom(annot.d, {"FontFauxing"}) = Minimal("TrapNet")
    /\ Has(annot, "FontFauxing") /\ annot.d["FontFauxing"].t = "array"
    /\ xRefTable.Version >= SubtypeSince("TrapNet")

\* C20: a TrapNet annotation with a FontFauxing array validates exactly when
\* every element of the array is null or dereferences to a dictionary of
\* Type Font and at least one element is such a dictionary; otherwise (an
\* element that cannot be dereferenced, a dictionary of another Type or
\* none, an empty array, an array of nulls) it fails with a constraint
\* violation on FontFauxing
C20_FontFauxing ==
    TrapNetWithFonts =>
        IF AllFonts(annot.d["FontFauxing"].e)
        THEN IsOK(annotRes.tr)
        ELSE ErrOf(annotRes.tr).e = "Constraint" /\ ErrOf(annotRes.tr).k = "FontFauxing"

\* a FontFauxing array of a Font dictionary, a null and a Page dictionary
\* is refused
C20_Witness ==
    /\ TrapNetWithFonts /\ Len(annot.d["FontFauxing"].e) = 3
    /\ ElemFont(annot.d["FontFauxing"].e[1]) /\ ElemNull(annot.d["FontFauxing"].e[2])
    /\ ErrOf(annotRes.tr).e = "Constraint" /\ ErrOf(annotRes.tr).k = "FontFauxing"

\* the annotation is a well-formed markup annotation with a string Subj
\* added, and the well-formed one validates in this document
SubjAdded ==
    /\ annotRes.done /\ Sub \in MarkupSubtypes
    /\ annot = PDFDict(With(WellFormed(Sub), "Subj", PDFStringLiteral("re")))
    /\ IsOK(validateAnnotationDict(xRefTable, PDFDict(WellFormed(Sub)), 0).tr)

SubjRefused == ErrOf(annotRes.tr).e = "Version" /\ ErrOf(annotRes.tr).k = "Subj"

\* C21 as stated: Subj has the floor 1.5 in strict mode and 1.4 in relaxed
\* mode
C21_SubjFloor ==
    SubjAdded =>
        IF xRefTable.Version >= (IF xRefTable.ValidationMode = ValidationRelaxed THEN V14 ELSE V15)
        THEN IsOK(annotRes.tr) ELSE SubjRefused

\* C21 amended: in package pdfcpu Subj has the floor 1.5 in strict mode and
\* 1.4 in relaxed mode; in package validate it has the floor 1.5 in both
\* modes
C21_SubjFloorByPackage ==
    SubjAdded =>
        IF xRefTable.Version >= (IF rev = 1 /\ xRefTable.ValidationMode = ValidationRelaxed THEN V14 ELSE V15)
        THEN IsOK(annotRes.tr) ELSE SubjRefused

\* package pdfcpu, version 1.4, relaxed mode: a Text annotation with Subj
\* validates
C21_Witness ==
    /\ SubjAdded /\ Sub = "Text" /\ rev = 1 /\ xRefTable.Version = V14
    /\ xRefTable.ValidationMode = ValidationRelaxed /\ IsOK(annotRes.tr)

\* the annotation is the well-formed Link annotation with a name as H, in a
\* document of version 1.2 or above
LinkHAdded ==
    /\ annotRes.done /\ annot.t = "dict" /\ Has(annot, "H") /\ annot.d["H"].t = "name"
    /\ RemovedFrom(annot.d, {"H"}) = LinkDest
    /\ xRefTable.Version >= V12

\* C22: a Link annotation whose H is a name outside the set of highlighting
\* modes fails with a constraint violation on H, and one whose H is in the
\* set validates
C22_LinkHighlightMode ==
    LinkHAdded =>
        IF annot.d["H"].s \in HighlightModes
        THEN IsOK(annotRes.tr)
        ELSE ErrOf(annotRes.tr).e = "Constraint" /\ ErrOf(annotRes.tr).k = "H"

\* the annotation is the minimal Movie annotation with an Aspect entry in
\* its movie dictionary, in a document that allows Movie annotations
MovieWithAspect ==
    /\ annotRes.done /\ annot.t = "dict" /\ Sub = "Movie"
    /\ Has(annot, "Movie") /\ annot.d["Movie"].t = "dict"
    /\ Has(annot.d["Movie"], "Aspect")
    /\ RemovedFrom(annot.d["Movie"].d, {"Aspect"}) = MovieF
    /\ RemovedFrom(annot.d, {"Movie"}) = Base("Movie")
    /\ xRefTable.Version >= SubtypeSince("Movie")

AspectOf == annot.d["Movie"].d["Aspect"]

IsIntegerPair(o) ==
    o.t = "array" /\ Len(o.e) = 2 /\ \A i \in DOMAIN o.e : o.e[i].t = "int"

\* C23: a Movie annotation whose movie dictionary has an Aspect that is not
\* an array of two integers fails validation, and one with an array of two
\* integers validates
C23_MovieAspect == MovieWithAspect => (IsOK(annotRes.tr) <=> IsIntegerPair(AspectOf))

\* the annotation is the minimal Polygon or PolyLine annotation with a name
\* as IT
IntentAdded ==
    /\ annotRes.done /\ Sub \in {"Polygon", "PolyLine"}
    /\ Has(annot, "IT") /\ annot.d["IT"].t = "name"
    /\ RemovedFrom(annot.d, {"IT"}) = Minimal(Sub)

IntentRefused == ErrOf(annotRes.tr).e = "Constraint" /\ ErrOf(annotRes.tr).k = "IT"

\* C24: a Polygon or PolyLine annotation with an intent IT fails with a
\* version error below version 1.6 (on IT wherever the subtype itself is
\* allowed), validates at 1.6 exactly if IT is PolygonCloud, and at 1.7
\* exactly if IT is PolygonCloud, PolyLineDimension or PolygonDimension;
\* every other value is a constraint violation on IT
C24_IntentByVersion ==
    IntentAdded =>
        /\ xRefTable.Version < V16 => ErrOf(annotRes.tr).e = "Version"
        /\ xRefTable.Version = V15 => ErrOf(annotRes.tr).k = "IT"
        /\ xRefTable.Version = V16 =>
              IF annot.d["IT"].s = "PolygonCloud" THEN IsOK(annotRes.tr) ELSE IntentRefused
        /\ xRefTable.Version = V17 =>
              IF annot.d["IT"].s \in {"PolygonCloud", "PolyLineDimension", "PolygonDimension"}
              THEN IsOK(annotRes.tr) ELSE IntentRefused

\* version 1.6: a Polygon annotation with the intent PolygonDimension is
\* refused
C24_Witness ==
    /\ IntentAdded /\ Sub = "Polygon" /\ xRefTable.Version = V16
    /\ annot.d["IT"].s = "PolygonDimension" /\ IntentRefused

\* validatePageAnnotations returns nil on the elements of arr from i on,
\* entered with the given hasTrapNet
RECURSIVE AnnotsOK(_, _, _, _)
AnnotsOK(xrt, arr, i, hasTrapNet) ==
    IF i > Len(arr) THEN TRUE
    ELSE IF hasTrapNet \/ Failed(AnnotElem(xrt, arr[i]).c) THEN FALSE
    ELSE \E r \in {validateAnnotationDict(xrt, AnnotElem(xrt, arr[i]).d, 0)} :
            IsOK(r.tr) /\ AnnotsOK(xrt, arr, i + 1, r.isTrapNet)

\* validatePageAnnotations returns nil on the page dictionary d
PageOK(xrt, d) ==
    /\ ~Failed(validateTypedEntry(xrt, d, "pageDict", "Annots", OPTIONAL, V10, "Array", TRUE))
    /\ Entry(xrt, d, "Annots") # Nil => AnnotsOK(xrt, Entry(xrt, d, "Annots").e, 1, FALSE)

\* validatePagesAnnotations returns nil on the page tree node
RECURSIVE PagesOK(_, _)
PagesOK(xrt, node) ==
    /\ PagesHead(node) = "range"
    /\ \A i \in DOMAIN PDFArrayEntry(node, "Kids").e :
          \E v \in {PDFArrayEntry(node, "Kids").e[i]} :
              \/ v = Nil
              \/ KidKind(xrt, v) = "Pages" /\ PagesOK(xrt, DereferenceDict(xrt, v).o)
              \/ KidKind(xrt, v) = "Page" /\ PageOK(xrt, DereferenceDict(xrt, v).o)

Finished == result.status \in {"ok", "error", "panic"}

InRelaxedMode == [xRefTable EXCEPT !.ValidationMode = ValidationRelaxed]

\* C25: the walk succeeds exactly on the page trees on which every step
\* returns nil, and a page tree on which it succeeds in strict mode is one
\* on which it succeeds in relaxed mode, at the same version
C25_RelaxedAtLeastAsPermissive ==
    Finished =>
        /\ result.status = "ok" <=> PagesOK(xRefTable, root)
        /\ result.status = "ok" /\ xRefTable.ValidationMode = ValidationStrict =>
              PagesOK(InRelaxedMode, root)

\* a walk in relaxed mode that succeeds on a page tree on which the walk in
\* strict mode fails: a Link with a border style at version 1.3
C25_Witness ==
    /\ result.status = "ok" /\ xRefTable.ValidationMode = ValidationRelaxed
    /\ ~PagesOK([xRefTable EXCEPT !.ValidationMode = ValidationStrict], root)
    /\ annotRes.done /\ Has(annot, "BS")

\* the walk is one call: every step of it that can be taken is taken
SpecLive == Spec /\ WF_vars(Next)

\* the walk comes to an end on the page trees of Init, all of them finite
\* and without an annotation or a Pages node reachable from itself
Halts == <>Finished

\* C26: on a finite object graph without a cycle of annotations or of Pages
\* nodes, validatePagesAnnotations terminates and returns success or an error
C26_Terminates == <>(result.status \in {"ok", "error"})

\* the element before the one the page is at
Previous == Top.arr[Top.i - 1]

\* an annotation other than a TrapNet with an IRT entry that resolves to a
\* valid TrapNet
ReplyToTrapNet(v) ==
    /\ Resolve(v).t = "dict" /\ ~IsTrapNet(v)
    /\ Has(Resolve(v), "IRT")
    /\ IsTrapNet(Resolve(v).d["IRT"]) /\ ValidAnnot(Resolve(v).d["IRT"])

\* C27: the TrapNet flag of a page is the subtype of the Annots element
\* itself, never of an annotation nested in it: after an element that was
\* validated the flag says whether that element is a TrapNet, the ordering
\* violation is raised only after an element that is itself a TrapNet, and
\* a valid annotation that replies to a valid TrapNet leaves the flag down
C27_TrapNetFlagOwnSubtype ==
    InPage /\ Top.i > 1 =>
        /\ Top.hasTrapNet <=> IsTrapNet(Previous)
        /\ (result.status = "error" /\ result.err.e = "Ordering") => IsTrapNet(Previous)
        /\ ReplyToTrapNet(Previous) =>
              ~Top.hasTrapNet /\ ~(result.status = "error" /\ result.err.e = "Ordering")

\* the first of two elements is a valid Text annotation whose IRT resolves
\* to a valid TrapNet, and the second element has been validated after it
C27_Witness ==
    /\ InPage /\ Len(Top.arr) = 2 /\ Top.i = 3 /\ result.status = "running"
    /\ ReplyToTrapNet(Top.arr[1]) /\ ValidAnnot(Top.arr[1])
    /\ Len(annotRes.tr) > 0 /\ annot = Resolve(Top.arr[2])

\* the page the walk is in comes after a page, a kid of the root, whose
\* Annots array is valid and ends with a TrapNet
AfterTrapNetPage ==
    /\ InPage /\ Len(stack) = 2 /\ stack[1].i > 1
    /\ \E k \in 1..(stack[1].i - 1) :
          /\ stack[1].arr[k] # Nil /\ GoodPage(stack[1].arr[k])
          /\ Has(Resolve(stack[1].arr[k]), "Annots")
          /\ \E a \in {Resolve(Resolve(stack[1].arr[k]).d["Annots"])} :
                a.t = "array" /\ Len(a.e) > 0 /\ IsTrapNet(a.e[Len(a.e)])

\* C28: the TrapNet flag is local to one page's Annots array: every page
\* starts with the flag down, whatever the pages before it ended with, a
\* Pages node has no flag, and the ordering violation is raised only in a
\* page in which a TrapNet of that page's own array precedes the element
C28_TrapNetFlagLocal ==
    /\ InPage /\ Top.i = 1 => ~Top.hasTrapNet
    /\ \A j \in DOMAIN stack : stack[j].kind = "Pages" => ~stack[j].hasTrapNet
    /\ (result.status = "error" /\ result.err.e = "Ordering") =>
          InPage /\ Top.i > 1 /\ IsTrapNet(Top.arr[Top.i - 1])
    /\ (AfterTrapNetPage /\ GoodAnnots(Top.arr)) => result.status = "running"

\* after a page that ends with a TrapNet, the annotation of a later page
\* has been validated without error
C28_Witness ==
    /\ AfterTrapNetPage /\ Top.i = 2 /\ result.status = "running"
    /\ annotRes.done /\ annot = Resolve(Top.arr[1]) /\ IsOK(annotRes.tr)
    /\ ~annotRes.isTrapNet

Extras == annot.d["AAPL:AKExtras"]

\* the same annotation without its AAPL:AKExtras entry
WithoutExtras == PDFDict(Without(annot.d, "AAPL:AKExtras"))

\* the annotation has a well-formed AAPL:AKExtras dictionary, in which
\* AAPL:AKAnnotationObject, if present, is a string
ExtrasAdded ==
    /\ annotRes.done /\ annot.t = "dict" /\ Has(annot, "AAPL:AKExtras")
    /\ Extras.t = "dict"
    /\ Has(Extras, "AAPL:AKAnnotationObject") =>
          Extras.d["AAPL:AKAnnotationObject"].t = "string"

\* C29: AAPL:AKPDFAnnotationDictionary is optional in AAPL:AKExtras: an
\* annotation whose AAPL:AKExtras lacks it validates exactly like the same
\* annotation without AAPL:AKExtras, and when it is present, a dictionary,
\* the annotation validates exactly when it does so without AAPL:AKExtras
\* and the nested dictionary passes validateAnnotationDict
C29_ExtrasAnnotationOptional ==
    ExtrasAdded =>
        IF ~Has(Extras, "AAPL:AKPDFAnnotationDictionary")
        THEN IsOK(annotRes.tr) <=> IsOK(validateAnnotationDict(xRefTable, WithoutExtras, 0).tr)
        ELSE Extras.d["AAPL:AKPDFAnnotationDictionary"].t = "dict" =>
                (IsOK(annotRes.tr) <=>
                    /\ IsOK(validateAnnotationDict(xRefTable, WithoutExtras, 0).tr)
                    /\ IsOK(validateAnnotationDict(xRefTable,
                            Extras.d["AAPL:AKPDFAnnotationDictionary"], 0).tr))

\* the annotation is a Link with an action dictionary as A and a Dest entry
LinkWithBoth ==
    /\ annotRes.done /\ annot.t = "dict" /\ Sub = "Link"
    /\ Has(annot, "A") /\ Entry(xRefTable, annot, "A").t = "dict"
    /\ Has(annot, "Dest")

\* the Dest of the annotation is one that validateDestination rejects or
\* that does not resolve
MalformedDest ==
    \/ annot.d["Dest"].s = "bad"
    \/ annot.d["Dest"] = Dangling

\* C30: the action takes precedence over the destination: for a Link with
\* an A dictionary and a Dest entry only the action is validated, no check
\* is made of Dest, the outcome is that of the same annotation without
\* Dest, and with a valid A at version 1.1 or above the Link is accepted
\* whatever its Dest is
C30_ActionBeforeDest ==
    LinkWithBoth =>
        /\ \A c \in ChecksOf(annotRes.tr) : c.k \notin {"Dest", "A or Dest"}
        /\ GeneralOK => \E c \in ChecksOf(annotRes.tr) : c.k = "A"
        /\ annotRes.tr = validateAnnotationDict(xRefTable, PDFDict(Without(annot.d, "Dest")), 0).tr
        /\ (RemovedFrom(annot.d, {"Dest"}) = LinkA /\ xRefTable.Version >= V11) =>
              IsOK(annotRes.tr)

\* a Link with a valid action and a malformed destination is accepted
C30_Witness ==
    /\ LinkWithBoth /\ MalformedDest
    /\ annot.d["A"].s # "bad" /\ IsOK(annotRes.tr)

====
